---- MODULE Spec2Model ----
(***************************************************************************)
(* Model of the Telegram -> VK cross-posting pipeline (daoqub/TgVk).       *)
(*                                                                         *)
(* State: the four settings-store tables the code reads and writes         *)
(* (telegram_channels, crosspost_settings, vk_targets, posts), the shared  *)
(* VkClient (_config and the VkApi session built from it), the scratch     *)
(* directory, the identity provider, the clock, and per handler task its   *)
(* position and locals.  One action per handler step; a step runs from one *)
(* suspension point (await of network I/O or of a sleep) to the next.      *)
(*                                                                         *)
(* Names the handlers call but that no file defines are resolved to the    *)
(* definition of the same role (get_channel_settings_by_id ->              *)
(* DatabaseRepository.get_channel_settings, add_entry ->                   *)
(* DatabaseRepository.save_post_mapping, upload_photo -> upload_media,     *)
(* get_source_link -> generate_source_link, ...); each is marked where it  *)
(* is defined.                                                             *)
(*                                                                         *)
(* Values: a token is a natural number (0 is None), the k-th token pair    *)
(* the provider issues is k + 1 (1 is the pair stored when the target was  *)
(* linked); a timestamp is an integer number of seconds (0 is a missing    *)
(* expires_at).                                                            *)
(***************************************************************************)
EXTENDS Integers, Sequences, FiniteSets, TLC

\* ------------------------------------------------------------- bounds ---
MaxOps      == 1      \* handler invocations in one behaviour
MaxTicks    == 2      \* seconds the clock advances in one behaviour
MaxIssued   == 2      \* token pairs the identity provider issues
MaxAlbum    == 2      \* messages in one album batch
MaxMsgId    == 2      \* source message ids are 1..MaxMsgId
MaxTasks    == 2      \* handler invocations in flight at once (SpecConcurrent)
MaxSaves    == 3      \* lines written to data.txt, and the post ids 1..MaxSaves
T0          == 1000   \* the clock at start

\* -------------------------------------------------- program constants ---
buffer_time        == 300         \* refresh margin, seconds
max_retries        == 3           \* VkClient(max_retries=3)
retries            == 3           \* FileManager.download_file(retries=3)
max_edit_attempts  == 3           \* EditedHandler.max_edit_attempts
DefaultExpiresIn   == 3300        \* data.get("expires_in", 3300)
MAX_FILE_SIZE      == 104857600   \* Config.MAX_FILE_SIZE = 100 * 1024 * 1024
delay              == 5           \* download_file_with_retries(delay=5)


\* ------------------------------------------------ strings and numbers ---
\* A Python str is a sequence of one-character strings.
DigitChar == <<"0", "1", "2", "3", "4", "5", "6", "7", "8", "9">>

RECURSIVE NatToStr(_)
NatToStr(n) ==
    IF n < 10 THEN <<DigitChar[n + 1]>>
    ELSE NatToStr(n \div 10) \o <<DigitChar[(n % 10) + 1]>>

\* str(n) of an int
IntToStr(n) == IF n < 0 THEN <<"-">> \o NatToStr(-n) ELSE NatToStr(n)

\* s.startswith(p)
StartsWith(s, p) == Len(s) >= Len(p) /\ SubSeq(s, 1, Len(p)) = p

DigitVal(c) == CHOOSE d \in 0..9 : DigitChar[d + 1] = c
IsDigit(c)  == \E d \in 0..9 : DigitChar[d + 1] = c

RECURSIVE DigitsToNat(_)
DigitsToNat(s) ==
    IF s = <<>> THEN 0
    ELSE 10 * DigitsToNat(SubSeq(s, 1, Len(s) - 1)) + DigitVal(s[Len(s)])

\* int(s) succeeds: an optional sign and at least one digit
IsIntStr(s) ==
    LET body == IF s # <<>> /\ s[1] = "-" THEN Tail(s) ELSE s
    IN  body # <<>> /\ \A i \in 1..Len(body) : IsDigit(body[i])

\* int(s), where it succeeds
StrToInt(s) ==
    IF s[1] = "-" THEN -DigitsToNat(Tail(s)) ELSE DigitsToNat(s)

Abs(n) == IF n < 0 THEN -n ELSE n

\* s.split(sep), sep one character
RECURSIVE Split(_, _)
Split(s, sep) ==
    IF \A i \in DOMAIN s : s[i] # sep THEN <<s>>
    ELSE LET k == CHOOSE i \in DOMAIN s :
                      s[i] = sep /\ \A j \in 1..(i - 1) : s[j] # sep
         IN  <<SubSeq(s, 1, k - 1)>> \o Split(SubSeq(s, k + 1, Len(s)), sep)

\* 2 ** k
Pow2(k) == 2 ^ k

\* config.format_owner_id: str(target_id) with a leading '-' is kept,
\* otherwise the id is negated
format_owner_id(target_id) ==
    LET str_id == IntToStr(target_id)
    IN  IF StartsWith(str_id, <<"-">>) THEN StrToInt(str_id)
        ELSE -1 * StrToInt(str_id)

VARIABLES
    telegram_channels,   \* table: rows [id, user_id, channel_id, channel_username]
    crosspost_settings,  \* table: rows [telegram_channel_id, vk_target_id, post_as_group, is_active]
    vk_targets,          \* table: rows [id, target_id, access_token, refresh_token, expires_at, is_active]
    posts,               \* table: rows [telegram_message_id, user_id, vk_post_id, telegram_channel_id]
    app_identity,        \* VK_CLIENT_ID and VK_CLIENT_SECRET are both set
    data_txt,            \* the lines of data.txt, each a str without its newline
    config,              \* VkClient._config
    api_token,           \* token of the VkApi session behind _api/_upload (0: _api is None)
    files,               \* scratch paths that exist on disk
    active_files,        \* FileManager.active_files
    uuid_next,           \* uuid4 values drawn so far
    issued,              \* token pairs issued by the identity provider
    wall,                \* the posts of the VK wall, by post id
    vk_posts,            \* posts created on the wall; the next post id is vk_posts + 1
    now,                 \* time.time()
    budget,              \* handler invocations still to come
    task                 \* per handler task: position, locals, and the calls it made

store  == <<telegram_channels, crosspost_settings, vk_targets, posts, app_identity,
            data_txt>>
client == <<config, api_token>>
disk   == <<files, active_files, uuid_next>>
world  == <<issued, wall, vk_posts, now>>
vars   == <<store, client, disk, world, budget, task>>

Tasks == {1}

\* ------------------------------------------------------ settings store ---
None == 0

\* response.data of table.select().eq(...).execute(): the matching rows in
\* table order
Rows(table, Match(_)) == SelectSeq(table, Match)

NoSettings ==
    [found |-> FALSE, user_id |-> 0, channel_username |-> "", target_id |-> 0,
     access_token |-> 0, refresh_token |-> 0, expires_at |-> 0,
     post_as_group |-> 0, channel_id |-> 0, vk_target_id |-> 0]

Prefix100 == <<"-", "1", "0", "0">>

\* The id get_channel_settings tries when the id as given matches no row:
\* the "-100" prefix removed or added, as a str; int() of it may fail.
ConvertedIdStr(channel_id) ==
    LET s == IntToStr(channel_id)
    IN  IF StartsWith(s, Prefix100) THEN SubSeq(s, 5, Len(s)) ELSE Prefix100 \o s

\* the vk_targets query without .eq('is_active', True)
AnyTarget(r, vk_target_id) == r.id = vk_target_id

\* The filters of the crosspost_settings and vk_targets queries of
\* get_channel_settings
ActiveSetting(r, telegram_channel_id) ==
    r.telegram_channel_id = telegram_channel_id /\ r.is_active

ActiveTarget(r, vk_target_id) == r.id = vk_target_id /\ r.is_active

\* DatabaseRepository.get_channel_settings
get_channel_settings(channel_id) ==
    LET direct == Rows(telegram_channels, LAMBDA r : r.channel_id = channel_id)
        conv   == ConvertedIdStr(channel_id)
        chans  == IF direct # <<>> THEN direct
                  ELSE IF ~IsIntStr(conv) THEN <<>>      \* ValueError -> except -> None
                  ELSE Rows(telegram_channels, LAMBDA r : r.channel_id = StrToInt(conv))
    IN  IF chans = <<>> THEN NoSettings
        ELSE
        LET channel_data == chans[1]
            sets == Rows(crosspost_settings,
                         LAMBDA r : ActiveSetting(r, channel_data.id))
        IN  IF sets = <<>> THEN NoSettings
            ELSE
            LET settings_data == sets[1]
                vks == Rows(vk_targets,
                            LAMBDA r : ActiveTarget(r, settings_data.vk_target_id))
            IN  IF vks = <<>> THEN NoSettings
                ELSE
                LET vk_data == vks[1]
                IN  [found |-> TRUE,
                     user_id |-> channel_data.user_id,
                     channel_username |-> channel_data.channel_username,
                     target_id |-> vk_data.target_id,
                     access_token |-> vk_data.access_token,
                     refresh_token |-> vk_data.refresh_token,
                     expires_at |-> vk_data.expires_at,
                     post_as_group |-> settings_data.post_as_group,
                     channel_id |-> channel_data.id,
                     vk_target_id |-> settings_data.vk_target_id]

\* get_channel_settings_by_id, imported by base_handler from the repository
\* module, which does not define it: the repository lookup; `found` stands for
\* the settings' is_active, which the lookup grants only to active links.
get_channel_settings_by_id(chat_id) == get_channel_settings(chat_id)

\* DatabaseRepository.save_post_mapping: update the rows of the key if any
\* exists, otherwise insert one
save_post_mapping(user_id, telegram_message_id, vk_post_id, telegram_channel_id) ==
    LET IsKey(r) == r.telegram_message_id = telegram_message_id /\ r.user_id = user_id
        check == Rows(posts, IsKey)
    IN  IF check # <<>>
        THEN [i \in DOMAIN posts |->
                 IF IsKey(posts[i])
                 THEN [posts[i] EXCEPT !.vk_post_id = vk_post_id,
                                       !.telegram_channel_id =
                                           IF telegram_channel_id # None
                                           THEN telegram_channel_id ELSE @]
                 ELSE posts[i]]
        ELSE Append(posts, [telegram_message_id |-> telegram_message_id,
                            user_id |-> user_id,
                            vk_post_id |-> vk_post_id,
                            telegram_channel_id |-> telegram_channel_id])

\* add_entry(message_id, post_id, user_id), imported by the text and album
\* handlers from the repository module, which does not define it: the
\* repository's upsert.
add_entry(message_id, post_id, user_id) ==
    save_post_mapping(user_id, message_id, post_id, None)

\* supabase.table('posts').insert({...}) of MediaHandler._publish_post: a plain
\* insert, whatever rows exist
insert_post(message_id, post_id, user_id, channel_id) ==
    Append(posts, [telegram_message_id |-> message_id,
                   user_id |-> user_id,
                   vk_post_id |-> post_id,
                   telegram_channel_id |-> channel_id])

\* the lookup without its .eq("telegram_message_id", message_id)
get_post_by_message_id_unfiltered(message_id) ==
    IF posts # <<>> THEN posts[1].vk_post_id ELSE None

\* VkClient.get_post_by_message_id with the store available: the first row of
\* the message id, whoever owns it (0: None)
get_post_by_message_id(message_id) ==
    LET data == Rows(posts, LAMBDA r : r.telegram_message_id = message_id)
    IN  IF data # <<>> THEN data[1].vk_post_id ELSE None

\* The line f'{message_id}:{post_id}' that VkClient.save_post_mapping writes
\* to data.txt (the newline is what separates the lines)
mapping_line(message_id, post_id) ==
    IntToStr(message_id) \o <<":">> \o IntToStr(post_id)

\* VkClient.save_post_mapping when config.supabase is None: the file after
\* open('data.txt', 'a').write(...)
save_post_mapping_file(message_id, post_id) ==
    Append(data_txt, mapping_line(message_id, post_id))

\* The scan of data.txt from line k on: the post id of the first line whose
\* two parts name the message id; int() of a part that is no number raises,
\* which the method's except turns into None
RECURSIVE scan_file(_, _, _)
scan_file(lines, k, message_id) ==
    IF k > Len(lines) THEN None
    ELSE LET parts == Split(lines[k], ":")
         IN  IF Len(parts) # 2 THEN scan_file(lines, k + 1, message_id)
             ELSE IF ~IsIntStr(parts[1]) THEN None
             ELSE IF StrToInt(parts[1]) # message_id
                  THEN scan_file(lines, k + 1, message_id)
             ELSE IF ~IsIntStr(parts[2]) THEN None
             ELSE StrToInt(parts[2])

\* VkClient.get_post_by_message_id when config.supabase is None: the linear
\* scan of data.txt
get_post_by_message_id_file(message_id) == scan_file(data_txt, 1, message_id)

\* ------------------------------------------------------------ VkClient ---
NoConfig == [access_token |-> 0, target_id |-> 0, post_as_group |-> -1]

\* configure without abs() in the account branch
configure_target_id_signed(target_id, post_as_group) ==
    IF post_as_group = 1 THEN Abs(format_owner_id(target_id)) ELSE target_id

\* VkClient.configure: the target id it stores in _config
configure_target_id(target_id, post_as_group) ==
    IF post_as_group = 1 THEN Abs(format_owner_id(target_id)) ELSE Abs(target_id)

\* VkClient.configure raises ValueError unless all([access_token, target_id])
configure_valid(access_token, target_id) == access_token # None /\ target_id # 0

\* VkClient.configure: _config after the update
configure(access_token, target_id, post_as_group) ==
    [access_token |-> access_token,
     target_id |-> configure_target_id(target_id, post_as_group),
     post_as_group |-> post_as_group]

\* owner_id of create_post and edit_post
owner_id_of(cfg) ==
    IF cfg.post_as_group = 0 THEN cfg.target_id ELSE -Abs(cfg.target_id)

\* What the identity provider answers to one refresh request.
ProviderAnswers == {"ok", "ok_no_expires_in", "http_error", "unreachable"}

IsTarget(r, target_id) == r.target_id = target_id /\ r.is_active

\* What else one refresh can meet: a 200 response without access_token, and
\* a store whose update raises after the provider has issued the new pair
RefreshOutcomes == ProviderAnswers \cup {"ok_no_access_token", "ok_update_raises"}

\* a refresh that leaves the store as it was
_refresh_vk_token_unsaved(target_id, refresh_token, answer) ==
    [token |-> IF app_identity /\ answer \in {"ok", "ok_no_expires_in"}
               THEN issued + 2 ELSE None,
     targets |-> vk_targets, issued |-> issued,
     requested |-> app_identity, requests |-> IF app_identity THEN 1 ELSE 0,
     sent |-> refresh_token]

\* a token request that is not sent
requests_none(answer) == 0

\* a token request repeated until it succeeds or max_retries is reached
requests_retried(answer) ==
    IF answer \in {"ok", "ok_no_expires_in", "ok_update_raises"} THEN 1 ELSE max_retries

\* requests.get(".../access_token", ...) of _refresh_vk_token: the requests
\* one call sends to the token endpoint
requests_sent(answer) == 1

\* VkClient._refresh_vk_token: the new access token (None on failure), the
\* vk_targets table and the provider's counter after it, whether a request
\* was sent to the token endpoint, how many, and with which refresh token
_refresh_vk_token(target_id, refresh_token, answer) ==
    LET again == Rows(vk_targets, LAMBDA r : IsTarget(r, target_id))
        quiet == [token |-> None, targets |-> vk_targets, issued |-> issued,
                  requested |-> FALSE, requests |-> 0, sent |-> None]
        sent  == IF refresh_token = None THEN again[1].refresh_token
                 ELSE refresh_token
        asked == [quiet EXCEPT !.requested = TRUE, !.requests = requests_sent(answer),
                               !.sent = sent]
        \* the row of the target after .update({...}).eq(...).eq(...)
        Updated(access, refresh, expires_at) ==
            [i \in DOMAIN vk_targets |->
                IF IsTarget(vk_targets[i], target_id)
                THEN [vk_targets[i] EXCEPT !.access_token = access,
                                           !.refresh_token = refresh,
                                           !.expires_at = expires_at]
                ELSE vk_targets[i]]
    IN  IF refresh_token = None /\ again = <<>> THEN quiet
        ELSE IF ~app_identity THEN quiet
        ELSE IF answer \in {"http_error", "unreachable"} THEN asked
        ELSE IF answer = "ok_no_access_token"
        THEN \* data.get(...) gives None for both tokens; they are stored
             [asked EXCEPT !.targets = Updated(None, None, now + DefaultExpiresIn)]
        ELSE IF answer = "ok_update_raises"
        THEN [asked EXCEPT !.issued = issued + 1]
        ELSE
        LET new_access_token  == issued + 2
            new_refresh_token == issued + 2
            expires_in == IF answer = "ok" THEN 3600 ELSE DefaultExpiresIn
            expires_at == now + expires_in
        IN  [asked EXCEPT !.token = new_access_token,
                          !.targets = Updated(new_access_token, new_refresh_token,
                                              expires_at),
                          !.issued = issued + 1]

\* the buffer test with > for >=
needs_refresh_strict(expires_at) == now + buffer_time > expires_at

\* buffer test of refresh_token_if_needed
needs_refresh(expires_at) == now + buffer_time >= expires_at

\* a check that keeps the cached token
valid_token_cached(cached, stored) == cached

\* a check that takes the stored token only when the client has none
valid_token_if_unset(cached, stored) == IF cached = None THEN stored ELSE cached

\* the token of a client whose stored token is still valid:
\* `if self._config.get('access_token') != target_data.get("access_token")`
valid_token(cached, stored) == IF cached # stored THEN stored ELSE cached

\* VkClient.refresh_token_if_needed(target_id) on a client whose cached token
\* is `cached`: its result, the cached token and the session token after it,
\* the store after it, whether _refresh_vk_token was entered and whether the
\* provider was asked.  store_ok = FALSE: the select raises.
refresh_token_if_needed(target_id, cached, answer, store_ok) ==
    LET data == Rows(vk_targets, LAMBDA r : IsTarget(r, target_id))
        failed == [ok |-> FALSE, token |-> cached, reinit |-> FALSE,
                   targets |-> vk_targets, issued |-> issued,
                   loaded |-> FALSE, expires_at |-> 0,
                   attempted |-> FALSE, requested |-> FALSE,
                   requests |-> 0, sent |-> None]
    IN  IF ~store_ok \/ data = <<>> THEN failed
        ELSE
        LET target_data == data[1]
            expires_at  == target_data.expires_at
        IN  IF expires_at # 0 /\ ~needs_refresh(expires_at)
            THEN [failed EXCEPT !.ok = TRUE, !.loaded = TRUE,
                                !.expires_at = expires_at,
                                !.token = valid_token(cached, target_data.access_token),
                                !.reinit = (cached # target_data.access_token)]
            ELSE
            LET r == _refresh_vk_token(target_id, target_data.refresh_token, answer)
            IN  [ok |-> r.token # None,
                 token |-> IF r.token # None THEN r.token ELSE cached,
                 reinit |-> r.token # None,
                 targets |-> r.targets, issued |-> r.issued,
                 loaded |-> TRUE, expires_at |-> expires_at,
                 attempted |-> TRUE, requested |-> r.requested,
                 requests |-> r.requests, sent |-> r.sent]

\* --------------------------------------------------------- handler tasks ---
NoPath == [kind |-> "none", n |-> 0]

\* One destination call as it was issued: the session token and the owner it
\* went out with, and what the token check before it had come to
NoCall == [api |-> "none", token |-> 0, owner_id |-> 0, from_group |-> -1,
           stale |-> FALSE, refresh_attempted |-> FALSE, refresh_ok |-> FALSE,
           text |-> <<>>, attachments |-> <<>>, copyright |-> <<>>]

\* One refresh_token_if_needed invocation: the credential it loaded (left =
\* expires_at - now, when it has an expiry), whether it entered
\* _refresh_vk_token, the requests it sent to the provider, and its result
NoRefresh == [target_id |-> 0, loaded |-> FALSE, has_expiry |-> FALSE, left |-> 0,
              attempted |-> FALSE, requests |-> 0, sent |-> 0, ok |-> FALSE]

IdleTask ==
    [pc |-> "idle", handler |-> "none", msgs |-> <<>>, idx |-> 0,
     ctx |-> NoSettings, oversized |-> FALSE, temp_path |-> NoPath,
     api |-> "none", attempt |-> 0, eattempt |-> 0, slept |-> 0,
     call_token |-> 0, owner_id |-> 0, from_group |-> -1,
     attachments |-> <<>>, ret |-> 0, post_id |-> 0,
     source_link |-> <<>>, text |-> <<>>, copyright |-> <<>>, old_post |-> <<>>,
     result |-> "none", exit |-> "none",
     \* what the invocation has done so far
     looked_up |-> FALSE, downloaded |-> FALSE, called |-> {}, posted |-> 0,
     uploaded |-> {},
     refreshed |-> FALSE, refresh_attempted |-> FALSE, requested |-> FALSE,
     refresh |-> NoRefresh, call |-> NoCall,
     \* the destination calls and sleeps of the invocation in order, where kept
     tracing |-> FALSE, trace |-> <<>>,
     \* the remote operations of the invocation so far, where counted
     counting |-> FALSE, remote |-> 0,
     \* the state it started from
     posts0 |-> <<>>, config0 |-> NoConfig, api0 |-> 0, wall0 |-> <<>>,
     targets0 |-> <<>>, now0 |-> 0]

InboundChats == {-1005, -1009}
Forwards     == {"none", "user", "chat"}
Handlers     == {"text", "media", "audio", "album", "edit"}
Sizes        == {MAX_FILE_SIZE, MAX_FILE_SIZE + 1}

\* s.removeprefix(p)
removeprefix(s, p) == IF StartsWith(s, p) THEN SubSeq(s, Len(p) + 1, Len(s)) ELSE s

\* copyright=None
NoLink == <<>>

\* BaseHandler.generate_source_link; username = <<>>: the chat has none
generate_source_link(username, chat_id, message_id) ==
    IF username # <<>>
    THEN <<"https://t.me/">> \o username \o <<"/">> \o IntToStr(message_id)
    ELSE <<"https://t.me/c/">> \o removeprefix(IntToStr(chat_id), Prefix100)
             \o <<"/">> \o IntToStr(message_id)

\* self.get_source_link(chat.username, chat.id, message_id) of the text and
\* album handlers, which no class defines: the base handler's link
get_source_link(username, chat_id, message_id) ==
    generate_source_link(username, chat_id, message_id)

\* VkClient.get_source_link_for_edit with the store available
get_source_link_for_edit(message_id) ==
    LET bare == <<"https://t.me/">> \o IntToStr(message_id)
        data == Rows(posts, LAMBDA r : r.telegram_message_id = message_id)
    IN  IF data = <<>> THEN bare
        ELSE
        LET chans == Rows(telegram_channels,
                          LAMBDA r : r.id = data[1].telegram_channel_id)
        IN  IF chans = <<>> THEN bare
            ELSE IF chans[1].channel_username # ""
            THEN <<"https://t.me/", chans[1].channel_username, "/">>
                     \o IntToStr(message_id)
            ELSE <<"https://t.me/c/">>
                     \o removeprefix(IntToStr(chans[1].channel_id), Prefix100)
                     \o <<"/">> \o IntToStr(message_id)

\* source_link of VkClient.edit_post(post_id, new_text, message_id=None)
edit_source_link(message_id) ==
    IF message_id # None THEN get_source_link_for_edit(message_id) ELSE NoLink

\* The text or caption of the message with this id, as a str
CaptionOf(message_id) == <<"text ">> \o IntToStr(message_id)

\* the caption of the first message of the batch, empty or not
caption_of_first(msgs) == IF msgs = <<>> THEN <<>> ELSE Head(msgs).caption

\* caption of AlbumHandler.handle: the first non-empty caption of the batch
RECURSIVE FirstCaption(_)
FirstCaption(msgs) ==
    IF msgs = <<>> THEN <<>>
    ELSE IF Head(msgs).caption # <<>> THEN Head(msgs).caption
    ELSE FirstCaption(Tail(msgs))

\* text of handle_oversized_file:
\* f"{message.caption or ''}\n\n{file_type} доступен по ссылке: {source_link}"
oversized_text(caption, file_type, source_link) ==
    caption \o <<"\n\n", file_type, " dostupen po ssylke: ">> \o source_link

\* file_type the handlers pass to handle_oversized_file ("Аудио", "Фото"),
\* in Latin letters like the text around it
file_type_of(handler) == IF handler = "audio" THEN "Audio" ELSE "Foto"

\* The text a handler passes to create_post
PostText(s) ==
    CASE s.oversized ->
            oversized_text(s.msgs[1].caption, file_type_of(s.handler), s.source_link)
      [] ~s.oversized /\ s.handler = "album" -> FirstCaption(s.msgs)
      [] OTHER -> s.msgs[1].caption

\* An attachment of a wall post as wall.getById returns it; a link
\* attachment has neither owner_id nor id
Photo(owner_id, id) == [type |-> "photo", owner_id |-> owner_id, id |-> id]
LinkAttachment      == [type |-> "link", owner_id |-> 0, id |-> 0]

\* attachments of VkClient.edit_post: the attachments of the old post that
\* have an owner_id and an id, as "<type><owner_id>_<id>" (the id stands for
\* the string)
preserved_attachments(old_post) ==
    LET atts == old_post[1].attachments
        kept == SelectSeq(atts, LAMBDA a : a.owner_id # 0 /\ a.id # 0)
    IN  [i \in DOMAIN kept |-> kept[i].id]

\* The stored expiry of the token a call uses is inside the refresh margin.
Stale(token) ==
    \E i \in DOMAIN vk_targets :
        /\ vk_targets[i].access_token = token
        /\ vk_targets[i].expires_at # 0
        /\ needs_refresh(vk_targets[i].expires_at)

\* is_user_forward without the forward_from_chat test
is_any_forward(m) == m.fwd # "none"

\* BaseHandler.is_user_forward
is_user_forward(m) == m.fwd = "user"

\* FileManager.get_temp_path: a name made of uuid4().hex
get_temp_path(n) == [kind |-> "uuid", n |-> n]

\* The message-scoped scratch names of AlbumHandler._handle_photo
\* ('./files/photo_{message_id}.jpg') and AudioHandler._upload_audio
\* (temp_dir / 'audio_{message_id}_{file_name}')
album_path(m) == [kind |-> "photo", n |-> m.message_id]
audio_path(m) == [kind |-> "audio", n |-> m.message_id]

\* a validation that accepts every file
_validate_file_type_any(m) == TRUE

\* FileManager._validate_file_type: mimetypes.guess_type goes by the name's
\* extension; the handler gives photos .jpg and videos .mp4, and documents
\* the extension of their file name
_validate_file_type(m) == m.ext_ok

Set(t, s) == task' = [task EXCEPT ![t] = s]

\* A mapping left in the store by an earlier run of the process
EarlierPost == [telegram_message_id |-> 1, user_id |-> 1, vk_post_id |-> 1,
                telegram_channel_id |-> 1]

\* The target of another channel's link, and the configuration an earlier
\* item of that channel left in the shared client
OtherTarget == [id |-> 2, target_id |-> 9, access_token |-> 9, refresh_token |-> 9,
                expires_at |-> T0 + 3600, is_active |-> TRUE]

EarlierConfig == configure(OtherTarget.access_token, OtherTarget.target_id, 1)

\* The wall post of EarlierPost, with the attachments atts
EarlierWallPost(atts) == [exists |-> TRUE, attachments |-> atts]

\* The states the process starts in; Walls: what the wall may hold where a
\* mapping exists
StartState(Walls) ==
    /\ telegram_channels =
          <<[id |-> 1, user_id |-> 1, channel_id |-> -1005, channel_username |-> ""]>>
    /\ crosspost_settings \in
          {<<[telegram_channel_id |-> 1, vk_target_id |-> 1,
              post_as_group |-> g, is_active |-> a]>> :
              g \in {0, 1}, a \in BOOLEAN}
    /\ vk_targets \in
          {<<[id |-> 1, target_id |-> tid, access_token |-> 1, refresh_token |-> 1,
              expires_at |-> e, is_active |-> a], OtherTarget>> :
              tid \in {7, -7},
              e \in {0, T0 + buffer_time - 1, T0 + buffer_time + 1},
              a \in BOOLEAN}
    /\ posts \in {<<>>, <<EarlierPost>>}
    /\ wall \in IF posts = <<>> THEN {<<>>} ELSE {<<w>> : w \in Walls}
    /\ vk_posts = Len(posts)
    /\ app_identity \in BOOLEAN
    /\ data_txt = <<>>
    /\ config \in {NoConfig, EarlierConfig}
    /\ api_token = config.access_token
    /\ files = {}
    /\ active_files = {}
    /\ uuid_next = 0
    /\ issued = 0
    /\ now = T0
    /\ budget = MaxOps
    /\ task = [t \in Tasks |-> IdleTask]

Init == StartState({EarlierWallPost(<<Photo(-7, 11)>>)})

\* The chat has a row in telegram_channels under the id as given.
HasChannel(chat) ==
    \E i \in DOMAIN telegram_channels : telegram_channels[i].channel_id = chat

\* An inbound item: n messages of one chat with the message ids m, m + 1,
\* ...; captioned[i]: the i-th has a text or caption
Item(chat, fwd, m, size, ext_ok, n, captioned) ==
    [i \in 1..n |->
        [message_id |-> m + i - 1, chat_id |-> chat, fwd |-> fwd, size |-> size,
         ext_ok |-> ext_ok,
         caption |-> IF captioned[i] THEN CaptionOf(m + i - 1) ELSE <<>>]]

\* A free task takes the item msgs for handler h.
StartWith(t, h, msgs, tracing, counting) ==
    /\ task[t].pc = "idle"
    /\ budget > 0
    /\ Set(t, [IdleTask EXCEPT
           !.pc = "setup", !.handler = h, !.msgs = msgs, !.tracing = tracing,
           !.counting = counting,
           !.posts0 = posts, !.config0 = config, !.api0 = api_token,
           !.wall0 = wall])
    /\ budget' = budget - 1
    /\ UNCHANGED <<store, client, disk, world>>

Start(t, h, msgs, tracing) == StartWith(t, h, msgs, tracing, FALSE)

\* The task record with k more remote operations, where it counts them: a
\* chat lookup, a store query, a download attempt, a request to the identity
\* provider, an attempt of a destination call
Counted(s, k) == IF s.counting THEN [s EXCEPT !.remote = @ + k] ELSE s

\* The dispatcher hands an inbound item to its handler.
Receive(t) ==
    /\ task[t].pc = "idle"
    /\ \E h \in Handlers, chat \in InboundChats, fwd \in Forwards,
          m \in 1..MaxMsgId, size \in Sizes, ext_ok \in BOOLEAN, n \in 1..MaxAlbum :
          /\ h # "album" => n = 1
          /\ h \notin {"media", "audio"} => size = MAX_FILE_SIZE
          /\ h # "media" => ext_ok
          \* one item of each kind that is not an organic message of the
          \* linked channel
          /\ (~HasChannel(chat) \/ fwd # "none")
                => (m = 1 /\ n = 1 /\ size = MAX_FILE_SIZE /\ ext_ok)
          /\ Start(t, h, Item(chat, fwd, m, size, ext_ok, n, [i \in 1..n |-> TRUE]),
                   FALSE)

\* The clock advances while a task waits for the network or sleeps.
Tick ==
    /\ now < T0 + MaxTicks
    /\ \E t \in Tasks : task[t].pc \in {"setup", "download", "api"}
    /\ now' = now + 1
    /\ UNCHANGED <<store, client, disk, issued, wall, vk_posts, budget, task>>

Done(s, result, exit) ==
    [s EXCEPT !.pc = "done", !.result = result, !.exit = exit,
              !.api = "none", !.attempt = 0, !.eattempt = 0, !.slept = 0, !.ret = 0]

\* config.get_post_mapping(message_id) of EditedHandler.handle; Config does
\* not define it: the lookup by message id of VkClient.get_post_by_message_id
get_post_mapping(message_id) == get_post_by_message_id(message_id)

\* a size test that lets every file through
oversized_never(file_size) == FALSE

\* `if file.file_size > self.config.MAX_FILE_SIZE` of the media handlers
oversized(file_size) == file_size > MAX_FILE_SIZE

\* self._process_media(message, processor, file_type, file_attr) of
\* AudioHandler.handle, which no file defines: the size test of the media
\* handlers, handle_oversized_file with its file_type when the file is too
\* large, else the processor
_process_media_oversized(file_size) == oversized(file_size)

\* The size test of the handler of task record s on its message
is_oversized(s) ==
    CASE s.handler = "media" -> oversized(s.msgs[1].size)
      [] s.handler = "audio" -> _process_media_oversized(s.msgs[1].size)
      [] OTHER -> FALSE

\* What the handler does once setup has returned its context, up to its
\* first suspension.
Dispatch(s) ==
    LET m == s.msgs[1]
    IN  CASE s.handler = "text" ->
               [s EXCEPT !.pc = "create_post"]
          [] s.handler \in {"media", "audio"} /\ is_oversized(s) ->
               \* handle_oversized_file
               [s EXCEPT !.pc = "create_post", !.oversized = TRUE]
          [] s.handler = "media" /\ ~is_oversized(s) ->
               [s EXCEPT !.pc = "download", !.idx = 1,
                         !.temp_path = get_temp_path(uuid_next + 1)]
          [] s.handler = "audio" /\ ~is_oversized(s) ->
               [s EXCEPT !.pc = "download", !.idx = 1, !.temp_path = audio_path(m)]
          [] s.handler = "album" ->
               [s EXCEPT !.pc = "download", !.idx = 1, !.temp_path = album_path(m)]
          [] s.handler = "edit" ->
               IF get_post_mapping(m.message_id) = None
               THEN Done(Counted(s, 1), "failed", "mapping_not_found")
               ELSE [Counted(s, 1) EXCEPT !.pc = "edit_post",
                              !.post_id = get_post_mapping(m.message_id)]

\* BaseHandler.setup, from the handler's entry to the end of setup
Setup(t) ==
    LET s == task[t]
        m == s.msgs[1]
    IN  /\ s.pc = "setup"
        /\ \E env \in {"ok", "get_chat_error", "store_error"} :
              LET settings == IF env = "ok" THEN get_channel_settings_by_id(m.chat_id)
                              ELSE NoSettings
                  \* bot.get_chat, then get_channel_settings_by_id
                  s1 == Counted([s EXCEPT !.looked_up =
                                      ~is_user_forward(m) /\ env # "get_chat_error"],
                                IF is_user_forward(m) THEN 0
                                ELSE IF env = "get_chat_error" THEN 1 ELSE 2)
              IN  IF is_user_forward(m) \/ ~settings.found
                     \/ ~configure_valid(settings.access_token, settings.target_id)
                  THEN /\ Set(t, Done(s1, "skipped",
                                       IF is_user_forward(m) THEN "user_forward"
                                       ELSE IF env # "ok" THEN "setup_error"
                                       ELSE "no_active_link"))
                       /\ UNCHANGED <<client, uuid_next>>
                  ELSE /\ config' = configure(settings.access_token, settings.target_id,
                                              settings.post_as_group)
                       /\ api_token' = settings.access_token
                       /\ Set(t, Dispatch([s1 EXCEPT
                                 !.ctx = settings,
                                 !.source_link =
                                     IF s.handler \in {"text", "album"}
                                     THEN get_source_link(<<>>, m.chat_id, m.message_id)
                                     ELSE generate_source_link(<<>>, m.chat_id,
                                                               m.message_id)]))
                       /\ uuid_next' = IF s.handler = "media" /\ ~is_oversized(s)
                                       THEN uuid_next + 1 ELSE uuid_next
        /\ UNCHANGED <<store, files, active_files, world, budget>>

\* Leaving the transfer part of a handler: the cleanup its finally clause
\* does (media: FileManager.cleanup; audio: _cleanup_files), none for the
\* album, whose removal is per message
Cleanup(s) ==
    /\ files' = IF s.handler \in {"media", "audio"} /\ ~s.oversized
                THEN files \ {s.temp_path} ELSE files
    /\ active_files' = IF s.handler = "media" /\ ~s.oversized /\ s.temp_path \in files
                       THEN active_files \ {s.temp_path} ELSE active_files

\* What makes one download attempt raise: the network (get_file, the
\* transfer), or the local file system (mkdir, writing the destination,
\* reading it back for the checksum)
FailureCauses == {"network", "local_io"}

\* One attempt to download the idx-th file of the item, and how it ended
DownloadEvent(idx, cause, ok) == [e |-> "download", api |-> cause, ok |-> ok, n |-> idx]

\* The task record with the download event added to its trace, where it
\* keeps one
DownloadTraced(s, idx, cause, ok) ==
    IF s.tracing THEN [s EXCEPT !.trace = @ \o <<DownloadEvent(idx, cause, ok)>>] ELSE s

\* an album that publishes whatever it has collected
has_attachments_always(attachments) == TRUE

\* `if attachments:` of AlbumHandler.handle
has_attachments(attachments) == attachments # <<>>

\* One iteration of the download loop: FileManager.download_file for the
\* media handler, download_file_with_retries for album and audio
DownloadAttempt(t) ==
    LET s  == task[t]
        m  == s.msgs[s.idx]
        s1 == Counted([s EXCEPT !.downloaded = TRUE], 1)
        last == s.attempt = retries - 1
        \* the handler's code after a failed download
        GiveUp(exit) ==
            IF s.handler = "album"
            THEN IF s.idx < Len(s.msgs)
                 THEN [s1 EXCEPT !.idx = @ + 1, !.attempt = 0, !.slept = 0,
                                 !.temp_path = album_path(s.msgs[s.idx + 1])]
                 ELSE IF has_attachments(s.attachments)
                      THEN [s1 EXCEPT !.pc = "create_post", !.attempt = 0, !.slept = 0]
                      ELSE Done(s1, "failed", exit)
            ELSE Done(s1, "failed", exit)
    IN  /\ s.pc = "download"
        /\ \/ \* the file arrives
              IF s.handler = "media" /\ ~_validate_file_type(m)
              THEN /\ files' = files \ {s.temp_path}
                   /\ Set(t, DownloadTraced(GiveUp("invalid_file_type"),
                                            s.idx, "none", TRUE))
                   /\ UNCHANGED active_files
              ELSE /\ files' = files \cup {s.temp_path}
                   /\ active_files' = IF s.handler = "media"
                                      THEN active_files \cup {s.temp_path}
                                      ELSE active_files
                   /\ Set(t, DownloadTraced(
                                [s1 EXCEPT !.pc = "upload_media", !.attempt = 0,
                                           !.slept = 0],
                                s.idx, "none", TRUE))
           \/ \* an exception in the attempt; written = TRUE: bot.download_file
              \* had opened the destination before it failed, or the checksum
              \* could not be read.  FileManager.download_file sleeps
              \* 2 ** attempt after every failure, download_file_with_retries
              \* sleeps delay after every failure but the last.
              \* Both helpers catch Exception, whatever raised it.
              \E written \in BOOLEAN, cause \in FailureCauses :
                 /\ files' = IF last /\ s.handler = "audio"
                            THEN files \ {s.temp_path}      \* finally: _cleanup_files
                            ELSE IF written THEN files \cup {s.temp_path} ELSE files
                 /\ UNCHANGED active_files
                 /\ Set(t, DownloadTraced(
                              IF last THEN GiveUp("download_failed")
                              ELSE [s1 EXCEPT !.attempt = @ + 1,
                                              !.slept = IF s.handler = "media"
                                                        THEN Pow2(s.attempt) ELSE delay],
                              s.idx, cause, FALSE))
        /\ UNCHANGED <<store, client, uuid_next, world, budget>>

\* The effect of one refresh_token_if_needed result r on the client and on
\* the store
ApplyRefresh(r) ==
    /\ config' = [config EXCEPT !.access_token = r.token]
    /\ api_token' = IF r.reinit THEN r.token ELSE api_token
    /\ vk_targets' = r.targets
    /\ issued' = r.issued

\* The provider issues at most MaxIssued token pairs.
WithinIssued(r, answer) ==
    (r.requested /\ answer \in {"ok", "ok_no_expires_in"}) => issued < MaxIssued

\* The task record after a refresh_token_if_needed(target_id) that came to r
Noted(s, target_id, r) ==
    \* the select, the requests to the provider, the update of the row
    LET k == 1 + r.requests
               + (IF r.targets # vk_targets \/ r.issued # issued THEN 1 ELSE 0)
    IN
    [Counted(s, k) EXCEPT !.refreshed = TRUE,
              !.refresh_attempted = @ \/ r.attempted,
              !.requested = @ \/ r.requested,
              !.refresh = [target_id |-> target_id, loaded |-> r.loaded,
                           has_expiry |-> r.loaded /\ r.expires_at # 0,
                           left |-> IF r.loaded /\ r.expires_at # 0
                                    THEN r.expires_at - now ELSE 0,
                           attempted |-> r.attempted,
                           requests |-> r.requests, sent |-> r.sent,
                           ok |-> r.ok]]

\* The task record with the call the client is about to make
Calling(s, api, r, cfg) ==
    [s EXCEPT !.pc = "api", !.api = api, !.attempt = 0, !.slept = 0,
              !.call_token = IF r.reinit THEN r.token ELSE api_token,
              !.owner_id = IF api = "upload" THEN 0 ELSE owner_id_of(cfg),
              !.from_group = IF api = "upload" THEN -1 ELSE cfg.post_as_group,
              !.text = IF api = "wall.post" THEN PostText(s) ELSE <<>>,
              !.copyright = IF api = "wall.post" THEN s.source_link ELSE NoLink]

\* VkClient.upload_media up to the first upload attempt
UploadMedia(t) ==
    LET s == task[t]
    IN  /\ s.pc = "upload_media"
        /\ IF s.temp_path \notin files
           THEN \* FileNotFoundError -> except -> None
                /\ Set(t, [s EXCEPT !.pc = "after_upload", !.ret = None])
                /\ UNCHANGED <<client, vk_targets, issued>>
           ELSE \E answer \in ProviderAnswers, store_ok \in BOOLEAN :
                  LET r == refresh_token_if_needed(config.target_id, config.access_token,
                                                   answer, store_ok)
                  IN  /\ WithinIssued(r, answer)
                      /\ ApplyRefresh(r)
                      /\ Set(t, Calling(Noted(s, config.target_id, r), "upload", r, config))
        /\ UNCHANGED <<telegram_channels, crosspost_settings, posts, app_identity, data_txt,
                       disk, wall, vk_posts, now, budget>>

\* The handler's code after upload_media has returned the attachment
AfterUpload(t) ==
    LET s == task[t]
        got == IF s.ret # None THEN Append(s.attachments, s.ret) ELSE s.attachments
    IN  /\ s.pc = "after_upload"
        /\ CASE s.handler = "media" ->
                  /\ Set(t, [s EXCEPT !.pc = "publish_post", !.attachments = <<s.ret>>,
                                      !.ret = 0])
                  /\ UNCHANGED files
             [] s.handler = "audio" ->
                  /\ Set(t, [s EXCEPT !.pc = "create_post", !.attachments = <<s.ret>>,
                                      !.ret = 0])
                  /\ UNCHANGED files
             [] s.handler = "album" ->
                  \* finally: os.remove(file_path); then the next message
                  /\ files' = files \ {s.temp_path}
                  /\ Set(t, IF s.idx < Len(s.msgs)
                            THEN [s EXCEPT !.pc = "download", !.ret = 0,
                                           !.idx = @ + 1, !.attachments = got,
                                           !.temp_path = album_path(s.msgs[s.idx + 1])]
                            ELSE IF has_attachments(got)
                                 THEN [s EXCEPT !.pc = "create_post", !.ret = 0,
                                                !.attachments = got]
                                 ELSE Done(s, "failed", "upload_failed"))
        /\ UNCHANGED <<store, client, active_files, uuid_next, world, budget>>

\* refresh_token_if_needed(target_id) as MediaHandler._publish_post calls it,
\* a module-level name no file defines: the client's check, for the target id
\* of the settings
module_refresh_token_if_needed(target_id, cached, answer, store_ok) ==
    refresh_token_if_needed(target_id, cached, answer, store_ok)

\* MediaHandler._publish_post up to its call of create_post
PublishPost(t) ==
    LET s == task[t]
    IN  /\ s.pc = "publish_post"
        /\ \E answer \in ProviderAnswers, store_ok \in BOOLEAN :
              LET r == module_refresh_token_if_needed(s.ctx.target_id, config.access_token,
                                                      answer, store_ok)
                  s1 == Noted(s, s.ctx.target_id, r)
              IN  /\ WithinIssued(r, answer)
                  /\ ApplyRefresh(r)
                  /\ IF r.ok
                     THEN /\ Set(t, [s1 EXCEPT !.pc = "create_post"])
                          /\ UNCHANGED <<files, active_files>>
                     ELSE /\ Set(t, Done(s1, "failed", "auth"))
                          /\ Cleanup(s)
        /\ UNCHANGED <<telegram_channels, crosspost_settings, posts, app_identity, data_txt,
                       uuid_next, wall, vk_posts, now, budget>>

\* a join that takes any attachment
JoinFails_never(attachments) == FALSE

\* ','.join(attachments) raises TypeError when an attachment is None
JoinFails(attachments) == \E i \in DOMAIN attachments : attachments[i] = None

\* VkClient.create_post up to the first wall.post attempt: the token check
\* and the request parameters
CreatePost(t) ==
    LET s == task[t]
    IN  /\ s.pc = "create_post"
        /\ \E answer \in ProviderAnswers, store_ok \in BOOLEAN :
              LET r == refresh_token_if_needed(config.target_id, config.access_token,
                                               answer, store_ok)
                  cfg == [config EXCEPT !.access_token = r.token]
                  s1 == Noted(s, config.target_id, r)
              IN  /\ WithinIssued(r, answer)
                  /\ ApplyRefresh(r)
                  /\ IF JoinFails(s.attachments)
                     THEN \* caught by MediaHandler._publish_post, re-raised by
                          \* AudioHandler._publish_post
                          /\ Set(t, IF s.handler = "audio"
                                    THEN Done(s1, "raised", "publish_error")
                                    ELSE Done(s1, "failed", "publish_error"))
                          /\ Cleanup(s)
                     ELSE /\ Set(t, Calling(s1, "wall.post", r, cfg))
                          /\ UNCHANGED <<files, active_files>>
        /\ UNCHANGED <<telegram_channels, crosspost_settings, posts, app_identity, data_txt,
                       uuid_next, wall, vk_posts, now, budget>>

\* The record of one destination call of task record s
CallOf(s) ==
    [api |-> s.api, token |-> s.call_token, owner_id |-> s.owner_id,
     from_group |-> s.from_group, stale |-> Stale(s.call_token),
     refresh_attempted |-> s.refresh_attempted, refresh_ok |-> s.refresh.ok,
     text |-> s.text,
     attachments |-> IF s.api \in {"wall.post", "wall.edit"} THEN s.attachments
                     ELSE <<>>,
     copyright |-> s.copyright]

\* a retry loop that does not return after a wall.post that returned
After_again(api) ==
    CASE api = "wall.post"    -> "api"
      [] api = "upload"       -> "after_upload"
      [] api = "wall.getById" -> "after_get"
      [] api = "wall.edit"    -> "after_edit"

\* Where the caller of _execute_with_retry goes on once the call is over
After(api) ==
    CASE api = "wall.post"    -> "after_post"
      [] api = "upload"       -> "after_upload"
      [] api = "wall.getById" -> "after_get"
      [] api = "wall.edit"    -> "after_edit"

\* One destination call and whether it returned, and one asyncio.sleep(n)
CallEvent(api, ok) == [e |-> "call", api |-> api, ok |-> ok, n |-> 0]
SleepEvent(n)      == [e |-> "sleep", api |-> "none", ok |-> TRUE, n |-> n]

\* The task record with the events added to its trace, where it keeps one
Traced(s, events) == IF s.tracing THEN [s EXCEPT !.trace = @ \o events] ELSE s

\* wall.getById(posts=f"{owner_id}_{post_id}"): the post in a list, or an
\* empty list when the wall has no such post
getById(post_id) ==
    IF post_id \in DOMAIN wall /\ wall[post_id].exists THEN <<wall[post_id]>>
    ELSE <<>>

\* What the call of task record s returns: wall.post the new post id,
\* an upload the attachment string of the file (the message id stands for it)
Returned(s) ==
    CASE s.api = "wall.post" -> vk_posts + 1
      [] s.api = "upload"    -> s.msgs[s.idx].message_id
      [] OTHER               -> 1

\* The wall after the call of task record s has been carried out
WallAfter(s) ==
    CASE s.api = "wall.post" ->
            Append(wall, [exists |-> TRUE,
                          attachments |-> [i \in DOMAIN s.attachments |->
                                             Photo(s.owner_id, s.attachments[i])]])
      [] s.api = "wall.edit" /\ s.post_id \in DOMAIN wall ->
            [wall EXCEPT ![s.post_id].attachments =
                SelectSeq(@, LAMBDA a :
                    \E i \in DOMAIN s.attachments : s.attachments[i] = a.id)]
      [] OTHER -> wall

\* VkClient._execute_with_retry: one attempt of the call, and the sleep that
\* follows a VkApiError that is not the last
ApiAttempt(t) ==
    LET s  == task[t]
        s1 == Counted([s EXCEPT !.called = @ \cup {s.api}, !.call = CallOf(s)], 1)
        left == [s1 EXCEPT !.pc = After(s.api), !.attempt = 0, !.slept = 0]
    IN  /\ s.pc = "api"
        /\ \/ \* the call returns
              /\ Set(t, Traced([left EXCEPT
                            !.ret = Returned(s),
                            !.old_post = IF s.api = "wall.getById"
                                         THEN getById(s.post_id) ELSE @,
                            !.posted = @ + (IF s.api = "wall.post" THEN 1 ELSE 0),
                            !.uploaded = IF s.api = "upload"
                                         THEN @ \cup {s.msgs[s.idx].message_id}
                                         ELSE @],
                         <<CallEvent(s.api, TRUE)>>))
              /\ wall' = WallAfter(s)
              /\ vk_posts' = IF s.api = "wall.post" THEN vk_posts + 1 ELSE vk_posts
           \/ \* VkApiError, retried after 2 ** attempt seconds
              /\ s.attempt < max_retries - 1
              /\ Set(t, Traced([s1 EXCEPT !.attempt = @ + 1, !.slept = Pow2(s.attempt)],
                         <<CallEvent(s.api, FALSE), SleepEvent(Pow2(s.attempt))>>))
              /\ UNCHANGED <<wall, vk_posts>>
           \/ \* VkApiError on the last attempt: raised to the caller
              /\ s.attempt = max_retries - 1
              /\ Set(t, Traced([left EXCEPT !.ret = None, !.exit = "retries_exhausted"],
                         <<CallEvent(s.api, FALSE)>>))
              /\ UNCHANGED <<wall, vk_posts>>
           \/ \* any other exception: raised at once
              /\ Set(t, Traced([left EXCEPT !.ret = None, !.exit = "error"],
                         <<CallEvent(s.api, FALSE)>>))
              /\ UNCHANGED <<wall, vk_posts>>
        /\ UNCHANGED <<store, client, disk, issued, now, budget>>

\* config.add_post_mapping(message_id, vk_post_id, user_id) of
\* AudioHandler._publish_post; Config does not define it: the repository's
\* upsert
add_post_mapping(message_id, vk_post_id, user_id) ==
    save_post_mapping(user_id, message_id, vk_post_id, None)

\* The mapping a handler records for the post it created
RecordMapping(s) ==
    LET m == s.msgs[1]
    IN  CASE s.oversized -> posts
          [] ~s.oversized /\ s.handler \in {"text", "album"} ->
               add_entry(m.message_id, s.ret, s.ctx.user_id)
          [] ~s.oversized /\ s.handler = "media" ->
               insert_post(m.message_id, s.ret, s.ctx.user_id, s.ctx.channel_id)
          [] ~s.oversized /\ s.handler = "audio" ->
               add_post_mapping(m.message_id, s.ret, s.ctx.user_id)

\* the handlers without their `if post_id:`
Recorded_unchecked(s) == RecordMapping(s)

\* `if post_id:` of the handlers: the posts table after create_post has
\* returned s.ret
Recorded(s) == IF s.ret # None THEN RecordMapping(s) ELSE posts

\* The handler's code after create_post has returned
AfterPost(t) ==
    LET s == task[t]
    IN  /\ s.pc = "after_post"
        /\ posts' = Recorded(s)
        /\ Set(t, [Done(Counted(s, IF s.ret # None /\ ~s.oversized THEN 1 ELSE 0),
                        IF s.ret # None THEN "published" ELSE "failed",
                        IF s.ret # None THEN "posted" ELSE s.exit)
                     EXCEPT !.post_id = s.ret])
        /\ Cleanup(s)
        /\ UNCHANGED <<telegram_channels, crosspost_settings, vk_targets, app_identity, data_txt,
                       client, uuid_next, world, budget>>

\* VkClient.edit_post up to the first wall.getById attempt
EditPost(t) ==
    LET s == task[t]
    IN  /\ s.pc = "edit_post"
        /\ \E answer \in ProviderAnswers, store_ok \in BOOLEAN :
              LET r == refresh_token_if_needed(config.target_id, config.access_token,
                                               answer, store_ok)
                  cfg == [config EXCEPT !.access_token = r.token]
              IN  /\ WithinIssued(r, answer)
                  /\ ApplyRefresh(r)
                  /\ Set(t, Calling(Noted(s, config.target_id, r), "wall.getById", r, cfg))
        /\ UNCHANGED <<telegram_channels, crosspost_settings, posts, app_identity, data_txt,
                       disk, wall, vk_posts, now, budget>>

\* a loop around edit_post that goes on until the edit succeeds
EditFailed_unbounded(s) ==
    Traced([s EXCEPT !.pc = "edit_post", !.ret = 0, !.slept = Pow2(s.eattempt)],
           <<SleepEvent(Pow2(s.eattempt))>>)

\* EditedHandler.handle after edit_post has returned False: the next attempt
\* after 2 ** attempt seconds, or the end after the last
EditFailed(s) ==
    IF s.eattempt = max_edit_attempts - 1
    THEN Done(s, "failed", "edit_failed")
    ELSE Traced([s EXCEPT !.pc = "edit_post", !.eattempt = @ + 1, !.ret = 0,
                          !.slept = Pow2(s.eattempt)],
                <<SleepEvent(Pow2(s.eattempt))>>)

\* VkClient.edit_post after wall.getById: the attachments of the old post,
\* then the first wall.edit attempt
AfterGet(t) ==
    LET s == task[t]
    IN  /\ s.pc = "after_get"
        /\ Set(t, IF s.ret = None \/ s.old_post = <<>> THEN EditFailed(s)
                  ELSE [s EXCEPT !.pc = "api", !.api = "wall.edit", !.ret = 0,
                                 !.attachments = preserved_attachments(s.old_post),
                                 !.text = s.msgs[1].caption,
                                 !.copyright = edit_source_link(None)])
        /\ UNCHANGED <<store, client, disk, world, budget>>

\* VkClient.edit_post after wall.edit, and the handler's loop around it
AfterEdit(t) ==
    LET s == task[t]
    IN  /\ s.pc = "after_edit"
        /\ Set(t, IF s.ret = None THEN EditFailed(s)
                  ELSE Done(s, "published", "edited"))
        /\ UNCHANGED <<store, client, disk, world, budget>>

\* The handler has returned; the task is free for the next item.
Finish(t) ==
    /\ task[t].pc = "done"
    /\ Set(t, IdleTask)
    /\ UNCHANGED <<store, client, disk, world, budget>>

Next ==
    \/ Tick
    \/ \E t \in Tasks :
        \/ Receive(t)
        \/ Setup(t)
        \/ DownloadAttempt(t)
        \/ UploadMedia(t)
        \/ AfterUpload(t)
        \/ PublishPost(t)
        \/ CreatePost(t)
        \/ ApiAttempt(t)
        \/ AfterPost(t)
        \/ EditPost(t)
        \/ AfterGet(t)
        \/ AfterEdit(t)
        \/ Finish(t)

Spec == Init /\ [][Next]_vars

\* --------------------------------------------------- edits, with a trace ---
\* What the wall may hold for a mapped post: no attachment, a photo, a photo
\* and a link, or nothing any more (the post was deleted)
EditWalls ==
    {EarlierWallPost(<<>>),
     EarlierWallPost(<<Photo(-7, 11)>>),
     EarlierWallPost(<<Photo(-7, 11), LinkAttachment>>),
     [exists |-> FALSE, attachments |-> <<>>]}

\* A client not yet configured, a page target stored with a positive id,
\* and the application's identity set
InitEdit ==
    /\ StartState(EditWalls)
    /\ config = NoConfig
    /\ app_identity
    /\ \A i \in DOMAIN crosspost_settings : crosspost_settings[i].post_as_group = 1
    /\ \A i \in DOMAIN vk_targets : vk_targets[i].target_id > 0

\* The dispatcher hands an edited message of a known channel to
\* EditedHandler.handle; the task keeps the trace of its calls and sleeps.
ReceiveEdit(t) ==
    /\ task[t].pc = "idle"
    /\ \E chat \in InboundChats, m \in 1..MaxMsgId, captioned \in BOOLEAN :
          /\ HasChannel(chat)
          /\ Start(t, "edit", Item(chat, "none", m, MAX_FILE_SIZE, TRUE, 1, <<captioned>>),
                   TRUE)

NextEdit ==
    \E t \in Tasks :
        \/ ReceiveEdit(t)
        \/ Setup(t)
        \/ EditPost(t)
        \/ ApiAttempt(t)
        \/ AfterGet(t)
        \/ AfterEdit(t)
        \/ Finish(t)

SpecEdit == InitEdit /\ [][NextEdit]_vars

\* ------------------------------------------------- albums, with captions ---
\* A client not yet configured, a page target stored with a positive id,
\* and the application's identity set
InitAlbum ==
    /\ StartState({EarlierWallPost(<<Photo(-7, 11)>>)})
    /\ config = NoConfig
    /\ app_identity
    /\ \A i \in DOMAIN crosspost_settings : crosspost_settings[i].post_as_group = 1
    /\ \A i \in DOMAIN vk_targets : vk_targets[i].target_id > 0

\* The grouping collaborator hands a batch of n photo messages of a known
\* channel to AlbumHandler.handle, each with a caption or without.
ReceiveAlbum(t) ==
    /\ task[t].pc = "idle"
    /\ \E chat \in InboundChats, m \in 1..MaxMsgId, n \in 1..MaxAlbum :
          \E captioned \in [1..n -> BOOLEAN] :
             /\ HasChannel(chat)
             /\ Start(t, "album", Item(chat, "none", m, MAX_FILE_SIZE, TRUE, n, captioned),
                      FALSE)

NextAlbum ==
    \E t \in Tasks :
        \/ ReceiveAlbum(t)
        \/ Setup(t)
        \/ DownloadAttempt(t)
        \/ UploadMedia(t)
        \/ AfterUpload(t)
        \/ CreatePost(t)
        \/ ApiAttempt(t)
        \/ AfterPost(t)
        \/ Finish(t)

SpecAlbum == InitAlbum /\ [][NextAlbum]_vars

\* ------------------------------------------------- the token check alone ---
\* A client configured for target 7 with the cached token 1; the stored
\* credential of the target without expiry, due, at the margin or valid, its
\* access token the cached one or a newer one, its row active or not
InitRefresh ==
    /\ telegram_channels =
          <<[id |-> 1, user_id |-> 1, channel_id |-> -1005, channel_username |-> ""]>>
    /\ crosspost_settings =
          <<[telegram_channel_id |-> 1, vk_target_id |-> 1, post_as_group |-> 1,
             is_active |-> TRUE]>>
    /\ vk_targets \in
          {<<[id |-> 1, target_id |-> 7, access_token |-> a, refresh_token |-> 1,
              expires_at |-> e, is_active |-> act], OtherTarget>> :
              a \in {1, 5},
              e \in {0, T0 + buffer_time - 1, T0 + buffer_time, T0 + buffer_time + 1,
                     T0 + buffer_time + MaxTicks + 1},
              act \in BOOLEAN}
    /\ posts = <<>>
    /\ wall = <<>>
    /\ vk_posts = 0
    /\ app_identity \in BOOLEAN
    /\ data_txt = <<>>
    /\ config = configure(1, 7, 1)
    /\ api_token = config.access_token
    /\ files = {}
    /\ active_files = {}
    /\ uuid_next = 0
    /\ issued = 0
    /\ now \in T0..(T0 + MaxTicks)
    /\ budget = MaxIssued
    /\ task = [t \in Tasks |-> IdleTask]

\* One refresh_token_if_needed(target_id) on the configured client, as
\* create_post, edit_post and upload_media make it; the task record keeps
\* what it saw and what it came to.
EnsureFresh(t) ==
    /\ task[t].pc = "idle"
    /\ budget > 0
    /\ config.target_id # 0
    /\ \E answer \in RefreshOutcomes, store_ok \in BOOLEAN :
          LET r == refresh_token_if_needed(config.target_id, config.access_token,
                                           answer, store_ok)
              s == [IdleTask EXCEPT !.handler = "refresh", !.config0 = config,
                                    !.api0 = api_token, !.targets0 = vk_targets,
                                    !.now0 = now, !.ret = r.token]
          IN  /\ r.issued <= MaxIssued
              /\ ApplyRefresh(r)
              /\ Set(t, [Done(Noted(s, config.target_id, r),
                              IF r.ok THEN "fresh" ELSE "failed", answer)
                           EXCEPT !.ret = r.token])
    /\ budget' = budget - 1
    /\ UNCHANGED <<telegram_channels, crosspost_settings, posts, app_identity, data_txt,
                   disk, wall, vk_posts, now>>

NextRefresh ==
    \E t \in Tasks :
        \/ EnsureFresh(t)
        \/ Finish(t)

SpecRefresh == InitRefresh /\ [][NextRefresh]_vars

\* ---------------------------------------------- downloads, with a trace ---
\* The dispatcher hands a photo, an audio file or an album of a known channel
\* to its handler; the task keeps the trace of its download attempts.
ReceiveDownload(t) ==
    /\ task[t].pc = "idle"
    /\ \E h \in {"media", "audio", "album"}, chat \in InboundChats,
          m \in 1..MaxMsgId, ext_ok \in BOOLEAN, n \in 1..MaxAlbum :
          /\ HasChannel(chat)
          /\ h # "album" => n = 1
          /\ h # "media" => ext_ok
          /\ Start(t, h, Item(chat, "none", m, MAX_FILE_SIZE, ext_ok, n,
                              [i \in 1..n |-> TRUE]), TRUE)

\* The download step of the handlers, up to the upload
NextDownload ==
    \E t \in Tasks :
        \/ ReceiveDownload(t)
        \/ Setup(t)
        \/ DownloadAttempt(t)
        \/ Finish(t)

SpecDownload == InitAlbum /\ [][NextDownload]_vars

\* ------------------------------------------- handlers running at once ---
\* Two channels of one user linked to the same page, its token valid for
\* the hour; MaxTasks handler invocations can be in flight together.
InitConcurrent ==
    /\ telegram_channels =
          <<[id |-> 1, user_id |-> 1, channel_id |-> -1005, channel_username |-> ""],
            [id |-> 2, user_id |-> 1, channel_id |-> -1009, channel_username |-> ""]>>
    /\ crosspost_settings =
          <<[telegram_channel_id |-> 1, vk_target_id |-> 1, post_as_group |-> 1,
             is_active |-> TRUE],
            [telegram_channel_id |-> 2, vk_target_id |-> 1, post_as_group |-> 1,
             is_active |-> TRUE]>>
    /\ vk_targets =
          <<[id |-> 1, target_id |-> 7, access_token |-> 1, refresh_token |-> 1,
             expires_at |-> T0 + DefaultExpiresIn, is_active |-> TRUE]>>
    /\ posts = <<>>
    /\ wall = <<>>
    /\ vk_posts = 0
    /\ app_identity = TRUE
    /\ data_txt = <<>>
    /\ config = NoConfig
    /\ api_token = config.access_token
    /\ files = {}
    /\ active_files = {}
    /\ uuid_next = 0
    /\ issued = 0
    /\ now = T0
    /\ budget = MaxTasks
    /\ task = [t \in 1..MaxTasks |-> IdleTask]

\* The dispatcher hands a photo message or a one-photo album of either
\* channel to its handler while other invocations are suspended; message
\* ids count from 1 in every channel.
ReceiveConcurrent(t) ==
    /\ task[t].pc = "idle"
    /\ \E h \in {"media", "album"}, chat \in InboundChats :
          /\ HasChannel(chat)
          /\ Start(t, h, Item(chat, "none", 1, MAX_FILE_SIZE, TRUE, 1, <<TRUE>>), FALSE)

\* Where an invocation is suspended: before its handler runs, at
\* bot.get_chat, in a download attempt, in asyncio.to_thread or asyncio.sleep
\* of _execute_with_retry, and after its return.  The store queries and the
\* provider request are blocking calls that do not yield.
AwaitPoints == {"idle", "setup", "download", "api", "done"}

\* The event loop runs one coroutine at a time, up to its next await: task t
\* takes a step only when no other invocation is between two awaits.
Resumed(t) == \A u \in DOMAIN task : u # t => task[u].pc \in AwaitPoints

\* Each await of a handler is a point where another invocation may run.
NextConcurrent ==
    \E t \in 1..MaxTasks :
        \/ Resumed(t) /\ ReceiveConcurrent(t)
        \/ Resumed(t) /\ Setup(t)
        \/ Resumed(t) /\ DownloadAttempt(t)
        \/ Resumed(t) /\ UploadMedia(t)
        \/ Resumed(t) /\ AfterUpload(t)
        \/ Resumed(t) /\ PublishPost(t)
        \/ Resumed(t) /\ CreatePost(t)
        \/ Resumed(t) /\ ApiAttempt(t)
        \/ Resumed(t) /\ AfterPost(t)
        \/ Resumed(t) /\ Finish(t)

SpecConcurrent == InitConcurrent /\ [][NextConcurrent]_vars

\* -------------------------------------------- two users, two links ---
\* Two users, each with a channel linked to a wall of their own: user 1
\* publishes as the community 7, user 2 on the account 9, with tokens valid
\* for the hour.  Message 1 of each channel was published by an earlier run:
\* post 1 is user 2's, post 2 is user 1's.  items: how many inbound items
\* the run handles.
TwoLinks(items) ==
    /\ telegram_channels =
          <<[id |-> 1, user_id |-> 1, channel_id |-> -1005, channel_username |-> ""],
            [id |-> 2, user_id |-> 2, channel_id |-> -1009, channel_username |-> ""]>>
    /\ crosspost_settings =
          <<[telegram_channel_id |-> 1, vk_target_id |-> 1, post_as_group |-> 1,
             is_active |-> TRUE],
            [telegram_channel_id |-> 2, vk_target_id |-> 2, post_as_group |-> 0,
             is_active |-> TRUE]>>
    /\ vk_targets =
          <<[id |-> 1, target_id |-> 7, access_token |-> 1, refresh_token |-> 1,
             expires_at |-> T0 + DefaultExpiresIn, is_active |-> TRUE],
            [id |-> 2, target_id |-> 9, access_token |-> 5, refresh_token |-> 5,
             expires_at |-> T0 + DefaultExpiresIn, is_active |-> TRUE]>>
    /\ posts = <<[telegram_message_id |-> 1, user_id |-> 2, vk_post_id |-> 1,
                  telegram_channel_id |-> None],
                 [telegram_message_id |-> 1, user_id |-> 1, vk_post_id |-> 2,
                  telegram_channel_id |-> None]>>
    /\ wall = <<EarlierWallPost(<<>>), EarlierWallPost(<<>>)>>
    /\ vk_posts = Len(wall)
    /\ app_identity = TRUE
    /\ data_txt = <<>>
    /\ config = NoConfig
    /\ api_token = config.access_token
    /\ files = {}
    /\ active_files = {}
    /\ uuid_next = 0
    /\ issued = 0
    /\ now = T0
    /\ budget = items
    /\ task = [t \in 1..MaxTasks |-> IdleTask]

InitTwoLinks == TwoLinks(MaxTasks)

\* The dispatcher hands a text or a photo, message 1 of either channel, to
\* its handler while other invocations are suspended.
ReceiveTwoLinks(t) ==
    /\ task[t].pc = "idle"
    /\ \E h \in {"text", "media"}, chat \in InboundChats :
          /\ HasChannel(chat)
          /\ Start(t, h, Item(chat, "none", 1, MAX_FILE_SIZE, TRUE, 1, <<TRUE>>), FALSE)

NextTwoLinks ==
    \E t \in 1..MaxTasks :
        \/ Resumed(t) /\ ReceiveTwoLinks(t)
        \/ Resumed(t) /\ Setup(t)
        \/ Resumed(t) /\ DownloadAttempt(t)
        \/ Resumed(t) /\ UploadMedia(t)
        \/ Resumed(t) /\ AfterUpload(t)
        \/ Resumed(t) /\ PublishPost(t)
        \/ Resumed(t) /\ CreatePost(t)
        \/ Resumed(t) /\ ApiAttempt(t)
        \/ Resumed(t) /\ AfterPost(t)
        \/ Resumed(t) /\ Finish(t)

SpecTwoLinks == InitTwoLinks /\ [][NextTwoLinks]_vars

\* The same two users; the run handles MaxOps edits of message 1 of either
\* channel.
InitOwners == TwoLinks(MaxOps)

ReceiveOwners(t) ==
    /\ task[t].pc = "idle"
    /\ \E chat \in InboundChats :
          /\ HasChannel(chat)
          /\ Start(t, "edit", Item(chat, "none", 1, MAX_FILE_SIZE, TRUE, 1, <<TRUE>>),
                   FALSE)

NextOwners ==
    \E t \in 1..MaxTasks :
        \/ ReceiveOwners(t)
        \/ Setup(t)
        \/ EditPost(t)
        \/ ApiAttempt(t)
        \/ AfterGet(t)
        \/ AfterEdit(t)
        \/ Finish(t)

SpecOwners == InitOwners /\ [][NextOwners]_vars

\* ---------------------------------------- token checks of two callers ---
\* A client configured for target 7 with the cached token 1, the stored
\* credential of the target without expiry, at the margin or valid;
\* MaxTasks callers (create_post, upload_media, edit_post of different
\* invocations) are about to check the token.
InitFresh ==
    /\ telegram_channels =
          <<[id |-> 1, user_id |-> 1, channel_id |-> -1005, channel_username |-> ""]>>
    /\ crosspost_settings =
          <<[telegram_channel_id |-> 1, vk_target_id |-> 1, post_as_group |-> 1,
             is_active |-> TRUE]>>
    /\ vk_targets \in
          {<<[id |-> 1, target_id |-> 7, access_token |-> 1, refresh_token |-> 1,
              expires_at |-> e, is_active |-> TRUE], OtherTarget>> :
              e \in {0, T0 + buffer_time, T0 + buffer_time + 1}}
    /\ posts = <<>>
    /\ wall = <<>>
    /\ vk_posts = 0
    /\ app_identity \in BOOLEAN
    /\ data_txt = <<>>
    /\ config = configure(1, 7, 1)
    /\ api_token = config.access_token
    /\ files = {}
    /\ active_files = {}
    /\ uuid_next = 0
    /\ issued = 0
    /\ now = T0
    /\ budget = MaxTasks
    /\ task = [t \in 1..MaxTasks |-> IdleTask]

\* An invocation reaches the await before its destination call; its token
\* check is the next thing it does when resumed.
BeginCheck(t) ==
    /\ task[t].pc = "idle"
    /\ budget > 0
    /\ Set(t, [IdleTask EXCEPT !.pc = "check", !.handler = "refresh"])
    /\ budget' = budget - 1
    /\ UNCHANGED <<store, client, disk, world>>

\* refresh_token_if_needed(target_id) of the resumed invocation, from its
\* select to its return: its store queries and its request to the provider
\* are blocking calls, so no other invocation runs in between.
Check(t) ==
    /\ task[t].pc = "check"
    /\ \E answer \in RefreshOutcomes, store_ok \in BOOLEAN :
          LET r == refresh_token_if_needed(config.target_id, config.access_token,
                                           answer, store_ok)
              s == [task[t] EXCEPT !.config0 = config, !.api0 = api_token,
                                   !.targets0 = vk_targets, !.now0 = now]
          IN  /\ r.issued <= MaxIssued
              /\ ApplyRefresh(r)
              /\ Set(t, [Done(Noted(s, config.target_id, r),
                              IF r.ok THEN "fresh" ELSE "failed", answer)
                           EXCEPT !.ret = r.token])
    /\ UNCHANGED <<telegram_channels, crosspost_settings, posts, app_identity, data_txt,
                   disk, wall, vk_posts, now, budget>>

NextFresh ==
    \E t \in 1..MaxTasks :
        \/ BeginCheck(t)
        \/ Check(t)

SpecFresh == InitFresh /\ [][NextFresh]_vars

\* --------------------------------------------- the mapping file alone ---
\* The process without a settings store (config.supabase is None): the
\* mappings go to data.txt and are read from it.
InitFallback ==
    /\ StartState({EarlierWallPost(<<>>)})
    /\ posts = <<>>
    /\ config = NoConfig
    /\ app_identity = TRUE
    /\ crosspost_settings[1].post_as_group = 1 /\ crosspost_settings[1].is_active
    /\ vk_targets[1].target_id > 0 /\ vk_targets[1].is_active
    /\ vk_targets[1].expires_at = 0

\* VkClient.save_post_mapping(message_id, post_id) with no store: one line
\* appended.
SaveFallback ==
    /\ Len(data_txt) < MaxSaves
    /\ \A t \in DOMAIN task : task[t].pc = "idle"
    /\ \E message_id \in 1..MaxMsgId, post_id \in 1..MaxSaves :
          data_txt' = save_post_mapping_file(message_id, post_id)
    /\ UNCHANGED <<telegram_channels, crosspost_settings, vk_targets, posts,
                   app_identity, client, disk, world, budget, task>>

\* VkClient.get_post_by_message_id(message_id) with no store; the task
\* record keeps the message id and what the lookup returned.
LookupFallback(t) ==
    /\ task[t].pc = "idle"
    /\ \E message_id \in 1..MaxMsgId :
          Set(t, [Done([IdleTask EXCEPT
                           !.handler = "lookup",
                           !.msgs = Item(-1005, "none", message_id, MAX_FILE_SIZE,
                                         TRUE, 1, <<TRUE>>)],
                       "looked_up", "none")
                    EXCEPT !.post_id = get_post_by_message_id_file(message_id)])
    /\ UNCHANGED <<store, client, disk, world, budget>>

NextFallback ==
    \/ SaveFallback
    \/ \E t \in Tasks :
        \/ LookupFallback(t)
        \/ Finish(t)

SpecFallback == InitFallback /\ [][NextFallback]_vars

\* ------------------------------------------- every item comes to an end ---
\* A client not yet configured, an active link to an active page target, a
\* mapping of an earlier run; the stored credential without expiry, due or
\* valid, the application's identity set or not
InitCounted ==
    /\ StartState({EarlierWallPost(<<Photo(-7, 11)>>)})
    /\ config = NoConfig
    /\ posts # <<>>
    /\ crosspost_settings[1].post_as_group = 1
    /\ crosspost_settings[1].is_active
    /\ vk_targets[1].target_id > 0
    /\ vk_targets[1].is_active

\* The dispatcher hands an inbound item to its handler; the task counts its
\* remote operations.
ReceiveCounted(t) ==
    /\ task[t].pc = "idle"
    /\ \E h \in Handlers, chat \in InboundChats, fwd \in Forwards,
          m \in 1..MaxMsgId, size \in Sizes, ext_ok \in BOOLEAN, n \in 1..MaxAlbum :
          /\ h # "album" => n = 1
          /\ h \notin {"media", "audio"} => size = MAX_FILE_SIZE
          /\ h # "media" => ext_ok
          /\ (~HasChannel(chat) \/ fwd # "none")
                => (m = 1 /\ n = 1 /\ size = MAX_FILE_SIZE /\ ext_ok)
          /\ StartWith(t, h, Item(chat, fwd, m, size, ext_ok, n, [i \in 1..n |-> TRUE]),
                       FALSE, TRUE)

\* The next step of the handler invocation of task t: the code up to its
\* next await, with whatever the awaited call came to
Step(t) ==
    \/ Setup(t)
    \/ DownloadAttempt(t)
    \/ UploadMedia(t)
    \/ AfterUpload(t)
    \/ PublishPost(t)
    \/ CreatePost(t)
    \/ ApiAttempt(t)
    \/ AfterPost(t)
    \/ EditPost(t)
    \/ AfterGet(t)
    \/ AfterEdit(t)

NextCounted ==
    \E t \in Tasks :
        \/ ReceiveCounted(t)
        \/ Step(t)
        \/ Finish(t)

\* No call has a deadline of its own: the event loop resumes a handler when
\* the call it awaits returns or raises, and every call does one of the two.
Fairness == \A t \in Tasks : WF_vars(Step(t))

SpecCounted == InitCounted /\ [][NextCounted]_vars /\ Fairness

\* ------------------------------------------ publishing, with a trace ---
\* The dispatcher hands an organic message or album of the linked channel
\* to its handler; the task keeps the trace of its downloads, destination
\* calls and sleeps.
ReceivePublish(t) ==
    /\ task[t].pc = "idle"
    /\ \E h \in Handlers \ {"edit"}, size \in Sizes, n \in 1..MaxAlbum :
          /\ h # "album" => n = 1
          /\ h \notin {"media", "audio"} => size = MAX_FILE_SIZE
          /\ Start(t, h, Item(-1005, "none", 1, size, TRUE, n, [i \in 1..n |-> TRUE]),
                   TRUE)

NextPublish ==
    \E t \in Tasks :
        \/ ReceivePublish(t)
        \/ Setup(t)
        \/ DownloadAttempt(t)
        \/ UploadMedia(t)
        \/ AfterUpload(t)
        \/ PublishPost(t)
        \/ CreatePost(t)
        \/ ApiAttempt(t)
        \/ AfterPost(t)
        \/ Finish(t)

SpecPublish == InitCounted /\ [][NextPublish]_vars

\* ------------------------------------------------------------ properties ---
\* The scratch paths an invocation may have created
ScratchOf(s) ==
    IF s.handler = "album" THEN {album_path(s.msgs[i]) : i \in DOMAIN s.msgs}
    ELSE {s.temp_path} \ {NoPath}

\* The rows of posts under the key (message_id, user_id)
MappingsOf(message_id, user_id) ==
    Rows(posts, LAMBDA r : r.telegram_message_id = message_id /\ r.user_id = user_id)

\* A channel row answers to the chat id, as given or with the "-100" prefix
\* added or removed
ChannelMatches(c, chat) ==
    \/ c.channel_id = chat
    \/ IsIntStr(ConvertedIdStr(chat)) /\ c.channel_id = StrToInt(ConvertedIdStr(chat))

\* The chat has no channel row with an active crosspost setting whose
\* destination target is active.
NoActiveLink(chat) ==
    ~ \E i \in DOMAIN telegram_channels, j \in DOMAIN crosspost_settings,
        k \in DOMAIN vk_targets :
          /\ ChannelMatches(telegram_channels[i], chat)
          /\ crosspost_settings[j].telegram_channel_id = telegram_channels[i].id
          /\ crosspost_settings[j].is_active
          /\ vk_targets[k].id = crosspost_settings[j].vk_target_id
          /\ vk_targets[k].is_active

\* C1: a wall.post, wall.getById or wall.edit issued after the client was
\* configured for target id t goes out with owner id -abs(t) when
\* post_as_group = 1 and abs(t) when post_as_group = 0, whatever the sign t is
\* stored with.
C1_OwnerIdByMode ==
    \A t \in Tasks :
        LET s == task[t]
        IN  s.call.api \in {"wall.post", "wall.getById", "wall.edit"} =>
                s.call.owner_id = IF s.ctx.post_as_group = 1
                                  THEN -Abs(s.ctx.target_id)
                                  ELSE Abs(s.ctx.target_id)

\* A post went out in account mode for a target stored with a negative id.
C1_Witness ==
    \E t \in Tasks :
        /\ task[t].call.api = "wall.post"
        /\ task[t].ctx.target_id < 0
        /\ task[t].ctx.post_as_group = 0
        /\ task[t].call.owner_id = Abs(task[t].ctx.target_id)

\* C2: once a handler has returned, on whatever exit path, no scratch file
\* of its invocation exists.
C2_NoScratchFileLeft ==
    \A t \in Tasks :
        task[t].pc = "done" => ScratchOf(task[t]) \cap files = {}

\* C3: no destination call goes out with a token whose stored expiry is
\* inside the refresh margin (now + 300 >= expires_at) unless
\* _refresh_vk_token was entered earlier in the same invocation.
C3_NoStaleTokenWithoutRefresh ==
    \A t \in Tasks :
        (task[t].call.api # "none" /\ task[t].call.stale)
            => task[t].call.refresh_attempted

\* C4 as stated: refresh_token_if_needed, having loaded a credential with an
\* expiry, sends one request to the provider if now + 300 >= expires_at and
\* none otherwise.
C4_RequestIffInsideMargin ==
    \A t \in Tasks :
        LET r == task[t].refresh
        IN  (r.loaded /\ r.has_expiry) =>
                (r.requests = 1 <=> r.left <= buffer_time)

\* C4, amended: with VK_CLIENT_ID and VK_CLIENT_SECRET set, a loaded
\* credential gets exactly one provider request if now + 300 >= expires_at
\* or it has no expiry, and none if it has more than 300 s left (299 s left:
\* one request, 301 s left: none); with either of them unset no request is
\* sent at all.
C4_RequestIffInsideMarginAndIdentity ==
    \A t \in Tasks :
        LET r == task[t].refresh
        IN  r.loaded =>
              /\ r.requests \in {0, 1}
              /\ r.requests = 1 <=>
                    (app_identity /\ (~r.has_expiry \/ r.left <= buffer_time))
              /\ (r.has_expiry /\ r.left = buffer_time + 1) => r.requests = 0
              /\ (r.has_expiry /\ r.left = buffer_time - 1 /\ app_identity)
                    => r.requests = 1

\* A credential with 299 s left was refreshed with one request.
C4_Witness ==
    \E t \in Tasks :
        /\ task[t].refresh.loaded
        /\ task[t].refresh.has_expiry
        /\ task[t].refresh.left = buffer_time - 1
        /\ task[t].refresh.requests = 1

\* C5: every wall.post of a publish comes after a refresh_token_if_needed of
\* the same invocation, and none after one that returned False.
C5_NoPostAfterFailedRefresh ==
    \A t \in Tasks :
        /\ "wall.post" \in task[t].called => task[t].refreshed
        /\ task[t].call.api = "wall.post" => task[t].call.refresh_ok

\* C6: when a message that already has a mapping is published again, by any
\* handler that records one, its key (message_id, user_id) has exactly one
\* row afterwards, and the row holds the new post id.
C6_OneRowWithLatestPost ==
    \A t \in Tasks :
        LET s    == task[t]
            m    == s.msgs[1]
            rows == MappingsOf(m.message_id, s.ctx.user_id)
        IN  (/\ s.pc = "done" /\ s.exit = "posted" /\ ~s.oversized
             /\ \E i \in DOMAIN s.posts0 :
                   /\ s.posts0[i].telegram_message_id = m.message_id
                   /\ s.posts0[i].user_id = s.ctx.user_id)
            => (Len(rows) = 1 /\ rows[1].vk_post_id = s.post_id)

\* C7: when wall.post raises VkApiError on each of the max_retries attempts,
\* the handler reports failure and the posts table is as it was, so a
\* message with no earlier mapping has none.
C7_NoMappingAfterExhaustedRetries ==
    \A t \in Tasks :
        LET s == task[t]
            m == s.msgs[1]
        IN  (s.pc = "done" /\ s.call.api = "wall.post" /\ s.exit = "retries_exhausted")
            => /\ s.result = "failed"
               /\ s.post_id = None
               /\ posts = s.posts0
               /\ s.posts0 = <<>> => get_post_by_message_id(m.message_id) = None

\* A text publish whose wall.post ran out of attempts, with the store empty
C7_Witness ==
    \E t \in Tasks :
        /\ task[t].pc = "done"
        /\ task[t].handler = "text"
        /\ task[t].call.api = "wall.post"
        /\ task[t].exit = "retries_exhausted"
        /\ task[t].posts0 = <<>>

\* C8: after a handler has created a post (text, single media, audio, album
\* or the oversized-file fallback), the posts table has a row from the source
\* message id to the returned post id.
C8_MappingForEveryPost ==
    \A t \in Tasks :
        LET s == task[t]
            m == s.msgs[1]
        IN  (s.pc = "done" /\ s.exit = "posted")
            => \E i \in DOMAIN posts :
                  /\ posts[i].telegram_message_id = m.message_id
                  /\ posts[i].vk_post_id = s.post_id

\* C9: an item forwarded from a user account ends skipped with no settings
\* lookup, no token check, no download and no destination call; an item
\* that was skipped as a user forward is one (channel forwards and organic
\* items pass the check).
C9_UserForwardSkipped ==
    \A t \in Tasks :
        LET s == task[t]
            m == s.msgs[1]
        IN  s.pc \notin {"idle", "setup"} =>
              /\ m.fwd = "user" =>
                    /\ s.pc = "done" /\ s.result = "skipped"
                    /\ ~s.looked_up /\ ~s.refreshed /\ ~s.downloaded
                    /\ s.called = {}
              /\ s.exit = "user_forward" => m.fwd = "user"
              /\ (m.fwd # "user" /\ s.pc = "done" /\ s.result = "skipped")
                    => s.exit \in {"setup_error", "no_active_link"}

\* A media item forwarded from a user was skipped.
C9_Witness ==
    \E t \in Tasks :
        /\ task[t].pc = "done"
        /\ task[t].handler = "media"
        /\ task[t].msgs[1].fwd = "user"
        /\ task[t].result = "skipped"

\* C10: an item of a chat with no active link (no channel row, no active
\* crosspost setting, or an inactive target) ends skipped with no download
\* and no destination call, and the client's configuration and session are
\* as they were.
C10_NoActiveLinkSkipped ==
    \A t \in Tasks :
        LET s == task[t]
            m == s.msgs[1]
        IN  (s.pc \notin {"idle", "setup"} /\ NoActiveLink(m.chat_id)) =>
              /\ s.pc = "done" /\ s.result = "skipped"
              /\ ~s.downloaded /\ ~s.refreshed /\ s.called = {}
              /\ config = s.config0 /\ api_token = s.api0

\* An organic item of a channel whose setting is active and whose target is
\* inactive was looked up and skipped, the client still configured for the
\* other channel's target.
C10_Witness ==
    \E t \in Tasks :
        /\ task[t].pc = "done"
        /\ task[t].msgs[1].fwd = "none"
        /\ task[t].looked_up
        /\ task[t].exit = "no_active_link"
        /\ config = EarlierConfig
        /\ \E j \in DOMAIN crosspost_settings, k \in DOMAIN vk_targets :
              /\ crosspost_settings[j].is_active
              /\ vk_targets[k].id = crosspost_settings[j].vk_target_id
              /\ ~vk_targets[k].is_active

\* sub occurs in text as a run of consecutive pieces
Contains(text, sub) ==
    \E i \in 0..(Len(text) - Len(sub)) : SubSeq(text, i + 1, i + Len(sub)) = sub

\* C11: a photo, video, video note, document or audio message whose declared
\* size exceeds MAX_FILE_SIZE is never downloaded or uploaded; its handler
\* goes to one wall.post without attachments whose text contains the caption
\* and the source link, and makes no second post.
C11_OversizedTextOnlyPost ==
    \A t \in Tasks :
        LET s == task[t]
            m == s.msgs[1]
            link == generate_source_link(<<>>, m.chat_id, m.message_id)
        IN  (/\ s.handler \in {"media", "audio"}
             /\ s.pc \notin {"idle", "setup"}
             /\ s.result # "skipped"
             /\ m.size > MAX_FILE_SIZE)
            => /\ s.pc # "download" /\ ~s.downloaded
               /\ s.temp_path = NoPath /\ s.called \subseteq {"wall.post"}
               /\ s.posted <= 1
               /\ s.call.api = "wall.post" =>
                     /\ s.call.attachments = <<>>
                     /\ Contains(s.call.text, m.caption)
                     /\ Contains(s.call.text, link)
               /\ s.pc = "done" =>
                     /\ s.call.api = "wall.post"
                     /\ s.result = "published" <=> s.posted = 1

\* An oversized captioned media message has ended with its one text post.
C11_Witness ==
    \E t \in Tasks :
        /\ task[t].pc = "done"
        /\ task[t].handler = "media"
        /\ task[t].msgs[1].size > MAX_FILE_SIZE
        /\ task[t].msgs[1].caption # <<>>
        /\ task[t].posted = 1
        /\ task[t].call.attachments = <<>>
        /\ Len(wall) = Len(task[t].wall0) + 1
        /\ wall[Len(wall)].attachments = <<>>

\* The positions of the calls of api in a trace, in order
Positions(tr, api) ==
    SelectSeq([i \in DOMAIN tr |-> i],
              LAMBDA i : tr[i].e = "call" /\ tr[i].api = api)

\* The seconds slept between positions a and b of a trace
RECURSIVE SleptBetween(_, _, _)
SleptBetween(tr, a, b) ==
    IF a + 1 >= b THEN 0
    ELSE (IF tr[a + 1].e = "sleep" THEN tr[a + 1].n ELSE 0) + SleptBetween(tr, a + 1, b)

\* The seconds slept between each two consecutive calls of api
Gaps(tr, api) ==
    LET p == Positions(tr, api)
    IN  [j \in 1..(Len(p) - 1) |-> SleptBetween(tr, p[j], p[j + 1])]

\* C12: one handling of an edited message calls wall.getById at most 3 times
\* and wall.edit at most 3 times in all, and reports failure when the last
\* attempt fails.
C12_AtMostThreeAttempts ==
    \A t \in Tasks :
        LET s == task[t]
        IN  (s.tracing /\ s.handler = "edit") =>
              /\ Len(Positions(s.trace, "wall.getById")) <= max_edit_attempts
              /\ Len(Positions(s.trace, "wall.edit")) <= max_edit_attempts
              /\ (s.pc = "done" /\ s.exit = "edit_failed") => s.result = "failed"

\* C13: when wall.edit fails k - 1 times and succeeds on its k-th call
\* (k <= 3), the handler reports success, the sleeps between consecutive
\* wall.edit calls are 1 s and then 2 s, and the successful call is the last
\* event of the invocation.
C13_EditSucceedsOnAttemptK ==
    \A t \in Tasks :
        LET s  == task[t]
            p  == Positions(s.trace, "wall.edit")
        IN  (/\ s.tracing /\ s.handler = "edit" /\ s.pc = "done"
             /\ Len(p) \in 1..max_edit_attempts
             /\ s.trace[p[Len(p)]].ok)
            => /\ s.result = "published"
               /\ Gaps(s.trace, "wall.edit") = [j \in 1..(Len(p) - 1) |-> Pow2(j - 1)]
               /\ p[Len(p)] = Len(s.trace)

\* C14: the attachments a wall.edit carries are the attachments of the post
\* as wall.getById returned it in the same attempt, each of them and no
\* other, and there is no wall.edit without such a read.
C14_AttachmentsPreserved ==
    \A t \in Tasks :
        LET s == task[t]
        IN  s.call.api = "wall.edit" =>
              /\ s.old_post # <<>>
              /\ Len(s.call.attachments) = Len(s.old_post[1].attachments)
              /\ \A i \in DOMAIN s.call.attachments :
                    s.call.attachments[i] = s.old_post[1].attachments[i].id

C16_NoEditAfterFailedRefresh ==
    \A t \in Tasks :
        task[t].call.api \in {"wall.getById", "wall.edit"} => task[t].call.refresh_ok

\* C17: a wall.edit carries the new text, the attachments kept from the old
\* post, and as copyright the source link of the edited message, the link
\* the publish had passed.
C17_EditCarriesSourceLink ==
    \A t \in Tasks :
        LET s == task[t]
            m == s.msgs[1]
        IN  s.call.api = "wall.edit" =>
              /\ s.call.text = m.caption
              /\ s.call.attachments = preserved_attachments(s.old_post)
              /\ s.call.copyright = generate_source_link(<<>>, m.chat_id, m.message_id)

\* The base delay of the retry loop task record s is in: the delay parameter
\* of download_file_with_retries, one second in download_file and in
\* _execute_with_retry
base_delay(s) ==
    IF s.pc = "download" /\ s.handler \in {"album", "audio"} THEN delay ELSE 1

\* C18: each retry loop (_execute_with_retry, download_file,
\* download_file_with_retries) makes at most max_attempts attempts, and the
\* sleep that followed the failure of attempt i (0-based) was
\* base_delay * 2^i seconds.
C18_BackoffDoubles ==
    \A t \in Tasks :
        LET s == task[t]
        IN  s.pc \in {"api", "download"} =>
              /\ s.attempt < (IF s.pc = "api" THEN max_retries ELSE retries)
              /\ s.attempt > 0 => s.slept = base_delay(s) * Pow2(s.attempt - 1)

\* The message ids of a batch in batch order
BatchIds(msgs) == [i \in DOMAIN msgs |-> msgs[i].message_id]

\* text is what the batch's first message with a caption says, or empty when
\* no message has one
IsFirstCaption(text, msgs) ==
    \/ /\ \A i \in DOMAIN msgs : msgs[i].caption = <<>>
       /\ text = <<>>
    \/ \E i \in DOMAIN msgs :
          /\ msgs[i].caption # <<>>
          /\ \A j \in 1..(i - 1) : msgs[j].caption = <<>>
          /\ text = msgs[i].caption

C20_EmptyAlbumNotPublished ==
    \A t \in Tasks :
        LET s == task[t]
        IN  (s.handler = "album" /\ s.uploaded = {}) =>
              /\ s.pc \notin {"create_post", "after_post"}
              /\ "wall.post" \notin s.called /\ s.api # "wall.post"
              /\ s.posted = 0
              /\ s.pc \notin {"idle", "setup"} => (wall = s.wall0 /\ posts = s.posts0)
              /\ s.pc = "done" => s.result \in {"failed", "skipped"}

\* A captioned batch of two has ended after both downloads were tried and
\* nothing was transferred.
C20_Witness ==
    \E t \in Tasks :
        LET s == task[t]
        IN  /\ s.pc = "done" /\ s.handler = "album"
            /\ Len(s.msgs) = 2 /\ s.msgs[1].caption # <<>>
            /\ s.downloaded /\ s.uploaded = {}
            /\ s.result = "failed"

\* C22: every handler invocation ends skipped, published or failed; no
\* exception leaves the handler, whatever failed on the way.
C22_NoExceptionEscapes ==
    \A t \in DOMAIN task :
        task[t].pc = "done" => task[t].result \in {"skipped", "published", "failed"}

\* C28: when the file FileManager.download_file has fetched is of a type off
\* the allow-list, the download ends there: the scratch file is gone, the
\* path is not among the active files, no further attempt, no upload and no
\* post follow, and the handler reports failure.
C28_InvalidTypeEndsDownload ==
    \A t \in DOMAIN task :
        LET s == task[t]
        IN  (/\ s.handler = "media" /\ ~s.oversized
             /\ s.pc \notin {"idle", "setup"} /\ s.result # "skipped"
             /\ ~s.msgs[1].ext_ok)
            => /\ s.pc \in {"download", "done"}
               /\ s.temp_path \notin active_files
               /\ s.called = {} /\ s.posted = 0 /\ ~s.refreshed
               /\ s.pc = "done" =>
                     /\ s.result = "failed"
                     /\ s.exit \in {"invalid_file_type", "download_failed"}
                     /\ s.exit = "invalid_file_type" => s.temp_path \notin files

\* A media download ended on the type check after the file had arrived.
C28_Witness ==
    \E t \in DOMAIN task :
        /\ task[t].pc = "done"
        /\ task[t].handler = "media"
        /\ ~task[t].msgs[1].ext_ok
        /\ task[t].downloaded
        /\ task[t].exit = "invalid_file_type"
        /\ task[t].temp_path # NoPath
        /\ task[t].temp_path \notin files

\* C27: for a message that was published and mapped, the link
\* get_source_link_for_edit computes from the store equals the link
\* generate_source_link gave at publish time: https://t.me/c/<channel id
\* without -100>/<message id> for a channel without a handle.
C27_EditLinkEqualsPublishLink ==
    \A t \in DOMAIN task :
        LET s == task[t]
            m == s.msgs[1]
        IN  (/\ s.pc = "done" /\ s.result = "published"
             /\ s.handler # "edit" /\ ~s.oversized)
            => /\ s.source_link = <<"https://t.me/c/">>
                                     \o removeprefix(IntToStr(m.chat_id), Prefix100)
                                     \o <<"/">> \o IntToStr(m.message_id)
               /\ get_source_link_for_edit(m.message_id) = s.source_link

\* The stored credential of target_id in a vk_targets table
StoredOf(targets, target_id) == Rows(targets, LAMBDA r : IsTarget(r, target_id))

\* Task t has finished a token check that went to _refresh_vk_token.
RefreshTried(t) ==
    /\ task[t].handler = "refresh" /\ task[t].pc = "done"
    /\ task[t].refresh.attempted

C24_FailureSurfacedNotRetried ==
    \A t \in DOMAIN task :
        LET s == task[t]
        IN  /\ s.refresh.requests <= 1
            /\ (RefreshTried(t) /\ (s.exit \in {"http_error", "unreachable"} \/ ~app_identity))
                 => /\ ~s.refresh.ok /\ s.result = "failed"
                    /\ s.refresh.requests = (IF app_identity THEN 1 ELSE 0)
                    /\ config = s.config0 /\ api_token = s.api0

\* A due token, the endpoint unreachable: one request, failure.
C24_Witness ==
    \E t \in DOMAIN task :
        /\ RefreshTried(t)
        /\ task[t].exit = "unreachable"
        /\ task[t].refresh.has_expiry
        /\ task[t].refresh.requests = 1
        /\ task[t].result = "failed"

\* The check of task t found a stored token that is still valid and differs
\* from the cached one.
ValidButDifferent(t) ==
    LET s == task[t]
    IN  /\ s.handler = "refresh" /\ s.pc = "done"
        /\ s.refresh.loaded /\ s.refresh.has_expiry
        /\ s.refresh.left > buffer_time
        /\ StoredOf(s.targets0, s.refresh.target_id)[1].access_token
              # s.config0.access_token

\* C25: a stored token that is still valid (now + 300 < expiry) and differs
\* from the cached token becomes the client's token; no request goes to the
\* provider, the store is not written, and the check returns True.
C25_CacheAdoptsStoredToken ==
    \A t \in DOMAIN task :
        LET s == task[t]
        IN  ValidButDifferent(t) =>
              /\ s.refresh.ok /\ s.result = "fresh"
              /\ config.access_token =
                    StoredOf(s.targets0, s.refresh.target_id)[1].access_token
              /\ api_token = config.access_token
              /\ s.refresh.requests = 0 /\ ~s.refresh.attempted
              /\ vk_targets = s.targets0

\* The cached token 1 was replaced by the stored token 5.
C25_Witness ==
    \E t \in DOMAIN task :
        /\ ValidButDifferent(t)
        /\ task[t].config0.access_token = 1
        /\ config.access_token = 5
        /\ issued = 0

\* C30 as stated: a stored credential without expiry makes the check send
\* exactly one request to the token endpoint, with the stored refresh token,
\* and the check returns True only with a new access token.
C30_NoExpiryOneRequest ==
    \A t \in DOMAIN task :
        LET s == task[t]
        IN  (/\ s.handler = "refresh" /\ s.pc = "done"
             /\ s.refresh.loaded /\ ~s.refresh.has_expiry)
            => /\ s.refresh.requests = 1
               /\ s.refresh.sent = StoredOf(s.targets0, s.refresh.target_id)[1].refresh_token
               /\ s.refresh.ok =>
                     /\ config.access_token # s.config0.access_token
                     /\ config.access_token =
                           StoredOf(vk_targets, s.refresh.target_id)[1].access_token

\* C30 amended: with the application identity configured the check sends
\* exactly one request, with the stored refresh token; without it no request
\* is sent and the check returns False.  It returns True exactly when the
\* response carries a new access token and the store took it.
C30_NoExpiryOneRequestWithIdentity ==
    \A t \in DOMAIN task :
        LET s == task[t]
        IN  (/\ s.handler = "refresh" /\ s.pc = "done"
             /\ s.refresh.loaded /\ ~s.refresh.has_expiry)
            => /\ s.refresh.attempted
               /\ app_identity =>
                     /\ s.refresh.requests = 1
                     /\ s.refresh.sent =
                           StoredOf(s.targets0, s.refresh.target_id)[1].refresh_token
               /\ ~app_identity => (s.refresh.requests = 0 /\ ~s.refresh.ok)
               /\ s.refresh.ok <=> (app_identity /\ s.exit \in {"ok", "ok_no_expires_in"})
               /\ s.refresh.ok =>
                     /\ config.access_token # s.config0.access_token
                     /\ config.access_token =
                           StoredOf(vk_targets, s.refresh.target_id)[1].access_token

\* A credential without expiry was refreshed with one request.
C30_Witness ==
    \E t \in DOMAIN task :
        /\ task[t].handler = "refresh" /\ task[t].pc = "done"
        /\ task[t].refresh.loaded /\ ~task[t].refresh.has_expiry
        /\ task[t].refresh.requests = 1
        /\ task[t].refresh.sent = 1
        /\ task[t].refresh.ok
        /\ config.access_token = 2

\* C29: a download attempt that fails on the local file system (creating
\* the directory, writing or checksumming the scratch file) is the last
\* attempt for that file; only network failures are followed by another.
C29_LocalErrorNotRetried ==
    \A t \in DOMAIN task :
        LET tr == task[t].trace
        IN  \A i \in DOMAIN tr :
               (tr[i].e = "download" /\ ~tr[i].ok /\ tr[i].api = "local_io")
                  => \A j \in (i + 1)..Len(tr) :
                        ~(tr[j].e = "download" /\ tr[j].n = tr[i].n)

\* Task t is between the start of a download and the removal of its
\* scratch file.
InTransfer(t) ==
    /\ task[t].temp_path # NoPath
    /\ \/ task[t].pc \in {"download", "upload_media", "after_upload"}
       \/ task[t].pc = "api" /\ task[t].api = "upload"

\* C21: two handler invocations that are in a transfer at the same time,
\* for messages of different channels, never use the same scratch path,
\* whatever the message ids.
C21_ScratchPathsDistinct ==
    \A t1, t2 \in DOMAIN task :
        (/\ t1 # t2 /\ InTransfer(t1) /\ InTransfer(t2)
         /\ task[t1].msgs[1].chat_id # task[t2].msgs[1].chat_id)
            => task[t1].temp_path # task[t2].temp_path

\* The remote operations one invocation can make: setup's two lookups; per
\* token check a select, a request and an update; per file a download loop,
\* a check and an upload; a check before the post (two for the media
\* handler), the post, and the mapping; for an edit the mapping lookup and
\* per attempt a check, wall.getById and wall.edit
RemoteBound(s) ==
    LET check == 1 + 1 + 1
    IN  IF s.handler = "edit"
        THEN 2 + 1 + max_edit_attempts * (check + max_retries + max_retries)
        ELSE 2 + Len(s.msgs) * (retries + check + max_retries)
               + check + check + max_retries + 1

Busy(t) == task[t].pc \notin {"idle", "done"}

\* C26: whatever fails, an item that was handed to a handler reaches the
\* handler's return, after a number of remote operations within the bound
\* that the retry limits give, and no loop goes on after its last attempt.
C26_EveryItemEnds ==
    /\ [](\A t \in Tasks :
            /\ task[t].remote <= RemoteBound(task[t])
            /\ task[t].pc = "download" => task[t].attempt < retries
            /\ task[t].pc = "api" => task[t].attempt < max_retries
            /\ task[t].eattempt < max_edit_attempts)
    /\ \A t \in Tasks : Busy(t) ~> (task[t].pc = "done")

\* An edit that ended after every wall.getById of every attempt had failed
C26_Witness ==
    \E t \in Tasks :
        /\ task[t].pc = "done"
        /\ task[t].handler = "edit"
        /\ task[t].exit = "edit_failed"
        /\ task[t].called = {"wall.getById"}
        /\ task[t].remote >= 2 + 1 + max_edit_attempts * (1 + max_retries)

\* The positions of the wall.post calls of a trace that returned
PostsDone(tr) ==
    SelectSeq(Positions(tr, "wall.post"), LAMBDA i : tr[i].ok)

\* C32: one handling of one message or album creates at most one
\* destination post, however many wall.post attempts failed before: at most
\* one wall.post returns, none is issued after it, and the wall grows by at
\* most one post.
C32_AtMostOnePost ==
    \A t \in DOMAIN task :
        LET s == task[t]
            p == Positions(s.trace, "wall.post")
        IN  s.pc # "idle" =>
              /\ s.posted <= 1
              /\ Len(PostsDone(s.trace)) = s.posted
              /\ \A j \in DOMAIN p : s.trace[p[j]].ok => j = Len(p)
              /\ Len(wall) = Len(s.wall0) + s.posted

\* A post created by the third wall.post attempt, after two that failed
C32_Witness ==
    \E t \in DOMAIN task :
        LET s == task[t]
            p == Positions(s.trace, "wall.post")
        IN  /\ s.pc = "done"
            /\ s.posted = 1
            /\ Len(p) = max_retries
            /\ ~s.trace[p[1]].ok /\ s.trace[p[Len(p)]].ok
            /\ Len(wall) = Len(s.wall0) + 1

\* C37: a single-media message that is not oversized and whose download or
\* upload failed gets no destination post and no mapping, and a post of the
\* single-media pipeline carries exactly one attachment, the one its upload
\* returned.
C37_NoPostWithoutAttachment ==
    \A t \in DOMAIN task :
        LET s == task[t]
        IN  (s.handler = "media" /\ ~s.oversized /\ s.pc # "idle") =>
              /\ s.uploaded = {} =>
                    (s.posted = 0 /\ posts = s.posts0 /\ wall = s.wall0)
              /\ s.posted = 1 =>
                    /\ s.call.api = "wall.post"
                    /\ Len(s.call.attachments) = 1
                    /\ s.call.attachments[1] # None
                    /\ s.call.attachments[1] \in s.uploaded
                    /\ Len(wall[Len(wall)].attachments) = 1

\* A photo whose upload failed on every attempt: the handler has returned
\* without a post
C37_Witness ==
    \E t \in DOMAIN task :
        LET s == task[t]
        IN  /\ s.handler = "media" /\ ~s.oversized /\ s.pc = "done"
            /\ \E i \in DOMAIN s.trace : s.trace[i].e = "download" /\ s.trace[i].ok
            /\ Len(Positions(s.trace, "upload")) = max_retries
            /\ s.uploaded = {}
            /\ s.posted = 0 /\ posts = s.posts0 /\ wall = s.wall0

\* C33: an edit of a message of user U goes to a post whose mapping was
\* recorded for U under that message id.
C33_EditResolvesOwnMapping ==
    \A t \in DOMAIN task :
        LET s == task[t]
        IN  (s.handler = "edit" /\ s.post_id # 0) =>
              \E i \in DOMAIN posts :
                 /\ posts[i].telegram_message_id = s.msgs[1].message_id
                 /\ posts[i].user_id = s.ctx.user_id
                 /\ posts[i].vk_post_id = s.post_id

\* The configuration VkClient.configure stores for the link of the channel
\* of task record s
OwnConfig(s) == configure(s.ctx.access_token, s.ctx.target_id, s.ctx.post_as_group)

\* C31: every destination call of an invocation goes out with the token of
\* its own channel's link, and every wall call with that link's owner and
\* identity mode, whatever other invocation ran in between.
C31_CallsUseOwnLink ==
    \A t \in DOMAIN task :
        LET s == task[t]
        IN  s.call.api # "none" =>
              /\ s.call.token = s.ctx.access_token
              /\ s.call.api # "upload" =>
                    /\ s.call.owner_id = owner_id_of(OwnConfig(s))
                    /\ s.call.from_group = s.ctx.post_as_group

\* C36: a token check that went to the provider and got no new access
\* token leaves the stored access token and refresh token of the target as
\* they were.
C36_FailedRefreshKeepsStore ==
    \A t \in DOMAIN task :
        LET s      == task[t]
            before == StoredOf(s.targets0, s.refresh.target_id)
            after  == StoredOf(vk_targets, s.refresh.target_id)
        IN  (RefreshTried(t) /\ ~s.refresh.ok) =>
              /\ Len(after) = Len(before)
              /\ \A i \in DOMAIN after :
                    /\ after[i].access_token = before[i].access_token
                    /\ after[i].refresh_token = before[i].refresh_token

\* C35: when a token check returns True, the client's cached token is the
\* access token the store holds for the target; when it returns False, the
\* cached token is the one the client had before.
C35_CacheMatchesStoreOnSuccess ==
    \A t \in DOMAIN task :
        LET s   == task[t]
            row == StoredOf(vk_targets, s.refresh.target_id)
        IN  (s.handler = "refresh" /\ s.pc = "done") =>
              /\ s.result = "fresh" =>
                    (row # <<>> /\ config.access_token = row[1].access_token)
              /\ s.result = "failed" =>
                    config.access_token = s.config0.access_token

\* A check that refreshed the token: the client and the store hold the new
\* one
C35_Witness ==
    \E t \in DOMAIN task :
        LET s   == task[t]
            row == StoredOf(vk_targets, s.refresh.target_id)
        IN  /\ RefreshTried(t) /\ s.result = "fresh"
            /\ config.access_token # s.config0.access_token
            /\ row[1].access_token # StoredOf(s.targets0, s.refresh.target_id)[1].access_token
            /\ config.access_token = row[1].access_token

\* The checks that refreshed the token and returned True
Refreshed == {t \in DOMAIN task : RefreshTried(t) /\ task[t].refresh.ok}

AllChecked == \A t \in DOMAIN task : task[t].pc = "done"

\* C34: once the token checks of all callers have returned, the stored
\* access token and refresh token of the target are a pair of one response,
\* and when a check refreshed the token the row is the triple of the latest
\* such refresh, which is the pair the provider issued last.
C34_StoreHoldsLatestRefresh ==
    LET row == StoredOf(vk_targets, 7)
    IN  AllChecked =>
          /\ Len(row) = 1
          /\ row[1].access_token = row[1].refresh_token
          /\ Refreshed # {} =>
                \E t \in Refreshed :
                   /\ \A u \in Refreshed : task[u].ret <= task[t].ret
                   /\ task[t].ret = issued + 1
                   /\ row[1].access_token = task[t].ret
                   /\ row[1].expires_at =
                         task[t].now0
                           + (IF task[t].exit = "ok_no_expires_in" THEN 3300 ELSE 3600)

\* Two callers checked a due token: the first refreshed it, the second found
\* the new token in the store and sent nothing.
C34_Witness ==
    /\ AllChecked
    /\ \E t, u \in DOMAIN task :
          /\ t # u
          /\ t \in Refreshed
          /\ task[u].result = "fresh" /\ ~task[u].refresh.attempted
          /\ StoredOf(task[u].targets0, 7)[1].access_token = task[t].ret
          /\ StoredOf(vk_targets, 7)[1].access_token = task[t].ret
          /\ config.access_token = task[t].ret

\* The post id of the last line of the file that was saved for message_id
\* (None when there is none)
LatestSaved(lines, message_id) ==
    LET own == SelectSeq(lines, LAMBDA l :
                   \E post_id \in 1..MaxSaves : l = mapping_line(message_id, post_id))
    IN  IF own = <<>> THEN None
        ELSE CHOOSE post_id \in 1..MaxSaves :
                 own[Len(own)] = mapping_line(message_id, post_id)

\* C38: without the settings store, a lookup of a message id returns the
\* post id of the most recent save for it, and nothing when it was never
\* saved.
C38_LookupReturnsLatestSave ==
    \A t \in DOMAIN task :
        (task[t].handler = "lookup" /\ task[t].pc = "done") =>
            task[t].post_id = LatestSaved(data_txt, task[t].msgs[1].message_id)

====
